---- MODULE Spec2Model ----
(***************************************************************************)
(* codeless: the refinement controller demo.main (src/demo.py), the file   *)
(* watcher's handlers and loops (src/start.py), the prompt builders        *)
(* (src/agents), the unittest oracle run_tests and the markdown fence      *)
(* helpers (src/agents/utils.py).                                          *)
(*                                                                         *)
(* In the controller and the watcher, texts are abstracted to identifiers. *)
(* The text a generator returns is named by the ordinal of the call that   *)
(* first returned it, so two calls return different texts unless the       *)
(* generator repeats itself; a failing oracle run returns a diagnostic     *)
(* named by the ordinal of the run, or the empty text when nothing but     *)
(* unexpected successes made it fail.                                      *)
(***************************************************************************)
EXTENDS Integers, Sequences, FiniteSets, TLC

\* ------------------------------------------------------------------ bounds

\* How many times in one session something out of the ordinary happens: a
\* generator gives a degenerate answer (the very text it is asked to
\* improve, or an answer without a python code block), a run of the oracle
\* fails without a diagnostic (the tests that did not pass are unexpected
\* successes only), or the user's editor saves a file after the first
\* handler of the watcher was called (once in a session, as the last of
\* them).
MaxOddities == 1

\* ------------------------------------------------------ program constants

\* src/demo.py:238 and :239
max_test_rounds == 10
max_impl_rounds == 3

\* src/demo.py:140, the diagnostic of a successful run ("All tests pass!"),
\* a text no generator and no failing run returns.
AllTestsPass == -2

\* The empty text: what extract_code returns for an answer without a python
\* code block (src/agents/utils.py:27,38).  It also stands for a local that
\* is not assigned yet and for a file that does not exist yet.
NoText == 0

\* A generation call that raised instead of returning a text
\* (src/agents/impl_generator.py:136, src/agents/test_generator.py:129).
Raised == -1

\* A generation call that raised TypeError before the agent was asked:
\* TestGenerator.str_to_str calls _make_improvement_prompt with the keyword
\* interface_str (src/agents/test_generator.py:126), and the parameter is
\* named python_interface (:91).
TypeError == -3

\* src/start.py:154 and :205
max_attempts == 5

\* py_compile.compile raised FileNotFoundError: the file is not there.
\* try_compile_file catches py_compile.PyCompileError only
\* (src/start.py:81-85), so the exception leaves it and its caller.
FileNotFoundError == -6

\* The texts the user's editor saves while a handler runs (the observer
\* watches the project directory, src/start.py:319-321): one that
\* py_compile accepts and one that it rejects.
UserTextOk == -4
UserTextBroken == -5
UserTexts == {UserTextOk, UserTextBroken}

\* example.code, the interface text every request carries (src/demo.py:221)
interface_code == "interface"

VARIABLES
    pc,                 \* position of main in src/demo.py:217-280
    test_str,           \* current test-suite text (:226, :271)
    impl_str,           \* current implementation text (:231, :256)
    tests_pass,         \* result of the last run_tests (:232, :257, :272)
    test_output,        \* diagnostic of the last run_tests (same lines)
    num_test_rounds,    \* remaining test budget (:240, :274)
    num_impl_rounds,    \* remaining implementation budget (:241, :258, :273)
    test_attempts,      \* test-attempt history (:242, :263)
    impl_attempts,      \* implementation-attempt history (:244, :247)
    test_request,       \* the last TestGenerationRequest built
    impl_request,       \* the last ImplGenerationRequest built
    test_file,          \* content of test_path on disk
    impl_file,          \* content of impl_path on disk
    report,             \* what main printed at the end
    repeats,            \* degenerate generator answers so far
    log,                \* the calls made to the generators and the oracle
    event,              \* the file event a watcher handler is called with
    user_input,         \* what the user typed at the watcher's prompt
    pending,            \* file events queued for the watcher's handlers
    attempts_count,     \* attempts_count of the watcher's loops
    compilation_error,  \* what try_compile_file returned last (demo.py:222,
                        \* start.py:151,167,240,252,261)
    edits,              \* files the user's editor saved after the first
                        \* handler of the watcher was called
    arg,                \* the input of a pure function
    res                 \* its result, <<>> before it is applied

main_vars == <<pc, test_str, impl_str, tests_pass, test_output,
               num_test_rounds, num_impl_rounds, test_attempts, impl_attempts,
               test_request, impl_request, test_file, impl_file, report,
               repeats, log>>

watch_vars == <<event, user_input, pending, attempts_count, compilation_error,
                edits>>

pure_vars == <<arg, res>>

vars == <<main_vars, watch_vars, pure_vars>>

\* ------------------------------------------------------------ data model

GenerationAttempt(code, errors) == [code |-> code, errors |-> errors]

TestGenerationRequest(interface, prior) ==
    [interface_str |-> interface, prior_attempts |-> prior]

\* An implementation request that leaves the test suite out.
ImplGenerationRequestNoSuite(interface, test, prior) ==
    [interface_str |-> interface, test_str |-> NoText, prior_attempts |-> prior]

ImplGenerationRequest(interface, test, prior) ==
    [interface_str |-> interface, test_str |-> test, prior_attempts |-> prior]

NoRequest == [interface_str |-> "", prior_attempts |-> <<>>]

\* ------------------------------------------------------------ the calls

GenTestEvent(request, out) == [op |-> "gen_test", request |-> request, out |-> out]
GenImplEvent(request, out) == [op |-> "gen_impl", request |-> request, out |-> out]
RunEvent(test, impl, passed, diag) ==
    [op |-> "run", test |-> test, impl |-> impl, passed |-> passed, diag |-> diag]

Indices(op) == {i \in DOMAIN log : log[i].op = op}
Count(op) == Cardinality(Indices(op))

\* run_tests (src/demo.py:135-155): (True, "All tests pass!") when the result
\* was successful, otherwise (False, the joined errors and failures).
run_tests(successful, failure_report) ==
    IF successful THEN <<TRUE, AllTestsPass>> ELSE <<FALSE, failure_report>>

\* start.run_tests (src/start.py:30-65): as run_tests, but the diagnostic of
\* a successful run is the empty text.
start_run_tests(successful, failure_report) ==
    IF successful THEN <<TRUE, NoText>> ELSE <<FALSE, failure_report>>

\* try_compile_file (src/demo.py:158-172, src/start.py:68-85): the empty
\* text when py_compile accepts the file, the error message when it rejects
\* it (PyCompileError, the only exception caught); when the file is missing
\* py_compile raises FileNotFoundError, which leaves try_compile_file.
try_compile_fileAlwaysOk(missing, compiles, message) == NoText

try_compile_file(missing, compiles, message) ==
    IF missing THEN FileNotFoundError
    ELSE IF compiles THEN NoText ELSE message

\* Whether py_compile accepts a file that holds the text: a file without
\* any text compiles, a text of the user's editor is known, a generated
\* text may or may not.
CompileOutcomes(text) ==
    IF text \in {NoText, UserTextOk} THEN {TRUE}
    ELSE IF text = UserTextBroken THEN {FALSE}
    ELSE BOOLEAN

\* The message of a compilation error, named by the number of calls made
\* before the file was compiled plus one.
FreshError == Len(log) + 1

\* The texts a generator and a failing run give that were not seen before.
FreshTest == Count("gen_test") + 1
FreshImpl == Count("gen_impl") + 1
FreshDiag == Count("run") + 1

\* What '\n'.join(output) is for a result that was not successful
\* (src/demo.py:142-155, src/start.py:52-65): a text naming the errors and
\* the failures, or the empty text when the result has neither (its tests
\* that did not pass are unexpected successes).
EmptyReports ==
    Cardinality({i \in Indices("run") :
                    ~log[i].passed /\ log[i].diag = NoText})

\* What has happened out of the ordinary so far.  A file saved by the
\* user's editor uses up the bound: a session has at most one such save, and
\* nothing out of the ordinary after it.
Oddities == repeats + EmptyReports + edits * MaxOddities

FailureReports ==
    {FreshDiag} \cup (IF Oddities < MaxOddities THEN {NoText} ELSE {})

\* The results the oracle may have: successful, or not, with its report.
OracleResults ==
    {[successful |-> TRUE, failure_report |-> NoText]} \cup
    {[successful |-> FALSE, failure_report |-> d] : d \in FailureReports}

\* What the generators may answer to a request: a text not seen before, or,
\* while the bound allows, the text they were asked to improve or an answer
\* from which extract_code gets the empty text.
Answers(fresh, request) ==
    {fresh} \cup
    (IF Oddities < MaxOddities
     THEN {NoText} \cup
          (IF request.prior_attempts # <<>>
           THEN {request.prior_attempts[Len(request.prior_attempts)].code}
           ELSE {})
     ELSE {})

\* The agent is asked: it returns an answer or its exception propagates
\* (src/agents/impl_generator.py:136-137, src/agents/test_generator.py:129-130).
Outcomes(fresh, request) == Answers(fresh, request) \cup {Raised}

\* How a generation call can end without a text.
Exceptions == {Raised, TypeError}

\* ImplGenerator.str_to_str (src/agents/impl_generator.py:131-137): a prompt
\* is built and the agent is asked.
impl_str_to_str(fresh, request) == Outcomes(fresh, request)

\* TestGenerator.str_to_str (src/agents/test_generator.py:125-130): for a
\* request without prior attempts the initial prompt is built and the agent
\* is asked; for a request with prior attempts _make_improvement_prompt is
\* called with a keyword it does not have and TypeError is raised.
test_str_to_str(fresh, request) ==
    IF request.prior_attempts # <<>>
    THEN {TypeError}
    ELSE Outcomes(fresh, request)

Repeated(fresh, out) ==
    IF out \in {fresh} \cup Exceptions THEN repeats ELSE repeats + 1

\* ------------------------------------------------------- loop conditions

\* Variants of the definitions below, each with one slip, used to show that
\* the properties depend on the code they are about.
InnerLoopCondOffByOne(passed, impl_rounds) == ~passed /\ impl_rounds >= 0
InnerLoopCondStopsEarly(passed, impl_rounds) == ~passed /\ impl_rounds > 1
BreakAfterInnerNever(passed) == FALSE
AppendTestAttemptNoErrors(attempts, code, errors) ==
    Append(attempts, GenerationAttempt(code, NoText))
ReportOutcomeSwapped(test_rounds, passed) ==
    IF test_rounds > 0 \/ passed THEN "giveup" ELSE "success"
AfterRaiseSwallowed(next) == next

\* src/demo.py:243
OuterLoopCond(passed, test_rounds) == ~passed /\ test_rounds > 0

\* src/demo.py:245
InnerLoopCond(passed, impl_rounds) == ~passed /\ impl_rounds > 0

\* src/demo.py:259
BreakAfterInner(passed) == passed

\* src/demo.py:273
ResetImplRounds(impl_rounds) == max_impl_rounds

\* src/demo.py:274
DecrementTestRounds(test_rounds) == test_rounds - 1

\* src/demo.py:263
AppendTestAttempt(attempts, code, errors) ==
    Append(attempts, GenerationAttempt(code, errors))

\* src/demo.py:247
AppendImplAttempt(attempts, code, errors) ==
    Append(attempts, GenerationAttempt(code, errors))

\* src/demo.py:276
ReportOutcome(test_rounds, passed) ==
    IF test_rounds > 0 \/ passed THEN "success" ELSE "giveup"

\* The last element of a sequence.
Last(s) == s[Len(s)]

\* str_to_file with a return value that is not the text written.
str_to_fileReturnsNothing(text) == [written |-> <<text>>, returned |-> NoText]

\* str_to_file (src/agents/test_generator.py:132-136,
\* src/agents/impl_generator.py:152-155) once str_to_str has returned
\* `text`: the texts written to output_path, in order, and the text returned.
str_to_file(text) == [written |-> <<text>>, returned |-> text]

\* Where main is after a generation call raised: nothing in main catches
\* the exception (src/demo.py:226-274 has no try), so main is left; `next`
\* is where it would have gone on.
AfterRaise(next) == "raised"

\* The positions at which main has ended: after its report, after the
\* report of an interface that does not compile, by an exception.
Terminal == {"done", "aborted", "raised"}

\* ------------------------------------------------------------------ Init

MainInit ==
    /\ test_str = NoText
    /\ impl_str = NoText
    /\ tests_pass = FALSE
    /\ test_output = NoText
    /\ num_test_rounds = max_test_rounds
    /\ num_impl_rounds = max_impl_rounds
    /\ test_attempts = <<>>
    /\ impl_attempts = <<>>
    /\ test_request = NoRequest
    /\ impl_request = NoRequest
    /\ test_file = NoText
    /\ impl_file = NoText
    /\ report = "none"
    /\ repeats = 0
    /\ log = <<>>

NoEvent == [type |-> "none"]

\* user_input before input() was called.
NotAsked == "not asked"

WatchIdle ==
    /\ event = NoEvent
    /\ user_input = NotAsked
    /\ pending = <<>>
    /\ attempts_count = 0
    /\ compilation_error = NoText
    /\ edits = 0

PureIdle ==
    /\ arg = <<>>
    /\ res = <<>>

Init ==
    /\ pc = "compile"
    /\ MainInit
    /\ WatchIdle
    /\ PureIdle

\* --------------------------------------------------------------- actions

\* src/demo.py:217-224: the interface file is written, the request for the
\* initial test suite is built (:221) and the file is compiled; main reports
\* a compilation error and returns.  try_compile_file's answer is
\* py_compile's, an input here; the file is there, main has just written it.
CompileInterface ==
    /\ pc = "compile"
    /\ test_request' = TestGenerationRequest(interface_code, <<>>)
    /\ \E compiles \in BOOLEAN :
          /\ compilation_error' = try_compile_file(FALSE, compiles, FreshError)
          /\ IF compilation_error' # NoText
             THEN pc' = "aborted" /\ report' = "iface_error"
             ELSE pc' = "gen_test" /\ report' = report
    /\ UNCHANGED <<test_str, impl_str, tests_pass, test_output,
                   num_test_rounds, num_impl_rounds, test_attempts,
                   impl_attempts, impl_request, test_file,
                   impl_file, repeats, log>>
    /\ UNCHANGED <<edits, event, user_input, pending, attempts_count,
                   pure_vars>>

\* src/demo.py:226: the initial test suite, asked for with the request of
\* :221 and written to test_path.
GenerateInitialTests ==
    /\ pc = "gen_test"
    /\ LET request == test_request IN
       \E out \in test_str_to_str(FreshTest, request) :
          /\ test_request' = request
          /\ repeats' = Repeated(FreshTest, out)
          /\ log' = Append(log, GenTestEvent(request, out))
          /\ IF out \in Exceptions
             THEN /\ pc' = AfterRaise("gen_impl")
                  /\ UNCHANGED <<test_str, test_file>>
             ELSE /\ pc' = "gen_impl"
                  /\ test_str' = str_to_file(out).returned
                  /\ test_file' = Last(str_to_file(out).written)
    /\ UNCHANGED <<impl_str, tests_pass, test_output, num_test_rounds,
                   num_impl_rounds, test_attempts, impl_attempts, impl_request,
                   impl_file, report>>
    /\ UNCHANGED <<watch_vars, pure_vars>>

\* src/demo.py:227-231: the initial implementation, written to impl_path.
GenerateInitialImpl ==
    /\ pc = "gen_impl"
    /\ LET request == ImplGenerationRequest(interface_code, test_str, <<>>) IN
       \E out \in impl_str_to_str(FreshImpl, request) :
          /\ impl_request' = request
          /\ repeats' = Repeated(FreshImpl, out)
          /\ log' = Append(log, GenImplEvent(request, out))
          /\ IF out \in Exceptions
             THEN /\ pc' = AfterRaise("run")
                  /\ UNCHANGED <<impl_str, impl_file>>
             ELSE /\ pc' = "run"
                  /\ impl_str' = str_to_file(out).returned
                  /\ impl_file' = Last(str_to_file(out).written)
    /\ UNCHANGED <<test_str, tests_pass, test_output, num_test_rounds,
                   num_impl_rounds, test_attempts, impl_attempts, test_request,
                   test_file, report>>
    /\ UNCHANGED <<watch_vars, pure_vars>>

\* src/demo.py:232-242: the first oracle run; the budgets and the test
\* history are initialised.
RunInitialTests ==
    /\ pc = "run"
    /\ \E r \in OracleResults :
          LET result == run_tests(r.successful, r.failure_report) IN
          /\ tests_pass' = result[1]
          /\ test_output' = result[2]
          /\ log' = Append(log, RunEvent(test_file, impl_file, result[1], result[2]))
    /\ num_test_rounds' = max_test_rounds
    /\ num_impl_rounds' = max_impl_rounds
    /\ test_attempts' = <<>>
    /\ pc' = "outer"
    /\ UNCHANGED <<test_str, impl_str, impl_attempts, test_request,
                   impl_request, test_file, impl_file, report, repeats>>
    /\ UNCHANGED <<watch_vars, pure_vars>>

\* src/demo.py:243-244: the outer loop is entered, with a new empty
\* implementation history.
EnterTestRound ==
    /\ pc = "outer"
    /\ OuterLoopCond(tests_pass, num_test_rounds)
    /\ impl_attempts' = <<>>
    /\ pc' = "inner"
    /\ UNCHANGED <<test_str, impl_str, tests_pass, test_output,
                   num_test_rounds, num_impl_rounds, test_attempts,
                   test_request, impl_request, test_file, impl_file, report,
                   repeats, log>>
    /\ UNCHANGED <<watch_vars, pure_vars>>

\* src/demo.py:243: the outer loop ends.
ExitOuterLoop ==
    /\ pc = "outer"
    /\ ~OuterLoopCond(tests_pass, num_test_rounds)
    /\ pc' = "report"
    /\ UNCHANGED <<test_str, impl_str, tests_pass, test_output,
                   num_test_rounds, num_impl_rounds, test_attempts,
                   impl_attempts, test_request, impl_request, test_file,
                   impl_file, report, repeats, log>>
    /\ UNCHANGED <<watch_vars, pure_vars>>

\* src/demo.py:245-256: the rejected implementation is recorded and an
\* improved one is requested and written to impl_path.
GenerateImprovedImpl ==
    /\ pc = "inner"
    /\ InnerLoopCond(tests_pass, num_impl_rounds)
    /\ LET attempts == AppendImplAttempt(impl_attempts, impl_str, test_output)
           request == ImplGenerationRequest(interface_code, test_str, attempts)
       IN
       \E out \in impl_str_to_str(FreshImpl, request) :
          /\ impl_attempts' = attempts
          /\ impl_request' = request
          /\ repeats' = Repeated(FreshImpl, out)
          /\ log' = Append(log, GenImplEvent(request, out))
          /\ IF out \in Exceptions
             THEN /\ pc' = AfterRaise("impl_run")
                  /\ UNCHANGED <<impl_str, impl_file>>
             ELSE /\ pc' = "impl_run"
                  /\ impl_str' = str_to_file(out).returned
                  /\ impl_file' = Last(str_to_file(out).written)
    /\ UNCHANGED <<test_str, tests_pass, test_output, num_test_rounds,
                   num_impl_rounds, test_attempts, test_request, test_file,
                   report>>
    /\ UNCHANGED <<watch_vars, pure_vars>>

\* RunAfterImpl with the diagnostic of the run dropped.
RunAfterImplStale ==
    /\ pc = "impl_run"
    /\ \E r \in OracleResults :
          LET result == run_tests(r.successful, r.failure_report) IN
          /\ tests_pass' = result[1]
          /\ log' = Append(log, RunEvent(test_file, impl_file, result[1], result[2]))
    /\ num_impl_rounds' = num_impl_rounds - 1
    /\ pc' = "inner"
    /\ UNCHANGED <<test_str, impl_str, test_output, num_test_rounds,
                   test_attempts, impl_attempts, test_request, impl_request,
                   test_file, impl_file, report, repeats>>
    /\ UNCHANGED <<watch_vars, pure_vars>>

\* src/demo.py:257-258: the oracle runs on the improved implementation; one
\* implementation round is used up.
RunAfterImpl ==
    /\ pc = "impl_run"
    /\ \E r \in OracleResults :
          LET result == run_tests(r.successful, r.failure_report) IN
          /\ tests_pass' = result[1]
          /\ test_output' = result[2]
          /\ log' = Append(log, RunEvent(test_file, impl_file, result[1], result[2]))
    /\ num_impl_rounds' = num_impl_rounds - 1
    /\ pc' = "inner"
    /\ UNCHANGED <<test_str, impl_str, num_test_rounds, test_attempts,
                   impl_attempts, test_request, impl_request, test_file,
                   impl_file, report, repeats>>
    /\ UNCHANGED <<watch_vars, pure_vars>>

\* src/demo.py:245,259-260: the inner loop ends with passing tests.
BreakOnPass ==
    /\ pc = "inner"
    /\ ~InnerLoopCond(tests_pass, num_impl_rounds)
    /\ BreakAfterInner(tests_pass)
    /\ pc' = "report"
    /\ UNCHANGED <<test_str, impl_str, tests_pass, test_output,
                   num_test_rounds, num_impl_rounds, test_attempts,
                   impl_attempts, test_request, impl_request, test_file,
                   impl_file, report, repeats, log>>
    /\ UNCHANGED <<watch_vars, pure_vars>>

\* src/demo.py:245,259-271: the inner loop ends without a pass; the test
\* suite is recorded as rejected and a new one is requested, to be written to
\* test_path.  The request has a prior attempt, so str_to_str raises
\* TypeError (test_str_to_str) and main is left at :271.
RegenerateTests ==
    /\ pc = "inner"
    /\ ~InnerLoopCond(tests_pass, num_impl_rounds)
    /\ ~BreakAfterInner(tests_pass)
    /\ LET attempts == AppendTestAttempt(test_attempts, test_str, test_output)
           request == TestGenerationRequest(interface_code, attempts)
       IN
       \E out \in test_str_to_str(FreshTest, request) :
          /\ test_attempts' = attempts
          /\ test_request' = request
          /\ repeats' = Repeated(FreshTest, out)
          /\ log' = Append(log, GenTestEvent(request, out))
          /\ IF out \in Exceptions
             THEN /\ pc' = AfterRaise("test_run")
                  /\ UNCHANGED <<test_str, test_file>>
             ELSE /\ pc' = "test_run"
                  /\ test_str' = str_to_file(out).returned
                  /\ test_file' = Last(str_to_file(out).written)
    /\ UNCHANGED <<impl_str, tests_pass, test_output, num_test_rounds,
                   num_impl_rounds, impl_attempts, impl_request, impl_file,
                   report>>
    /\ UNCHANGED <<watch_vars, pure_vars>>

\* src/demo.py:272-274: the oracle runs on the new suite; the implementation
\* budget is reset and one test round is used up.  These lines follow the
\* call of :271, which never returns: no behaviour of main gets here, and
\* the step is not one of Next.
RunAfterTests ==
    /\ pc = "test_run"
    /\ \E r \in OracleResults :
          LET result == run_tests(r.successful, r.failure_report) IN
          /\ tests_pass' = result[1]
          /\ test_output' = result[2]
          /\ log' = Append(log, RunEvent(test_file, impl_file, result[1], result[2]))
    /\ num_impl_rounds' = ResetImplRounds(num_impl_rounds)
    /\ num_test_rounds' = DecrementTestRounds(num_test_rounds)
    /\ pc' = "outer"
    /\ UNCHANGED <<test_str, impl_str, test_attempts, impl_attempts,
                   test_request, impl_request, test_file, impl_file, report,
                   repeats>>
    /\ UNCHANGED <<watch_vars, pure_vars>>

\* src/demo.py:276-280: the terminal report.
Report ==
    /\ pc = "report"
    /\ report' = ReportOutcome(num_test_rounds, tests_pass)
    /\ pc' = "done"
    /\ UNCHANGED <<test_str, impl_str, tests_pass, test_output,
                   num_test_rounds, num_impl_rounds, test_attempts,
                   impl_attempts, test_request, impl_request, test_file,
                   impl_file, repeats, log>>
    /\ UNCHANGED <<watch_vars, pure_vars>>

Next ==
    \/ CompileInterface
    \/ GenerateInitialTests
    \/ GenerateInitialImpl
    \/ RunInitialTests
    \/ EnterTestRound
    \/ ExitOuterLoop
    \/ GenerateImprovedImpl
    \/ RunAfterImpl
    \/ BreakOnPass
    \/ RegenerateTests
    \/ Report

Spec == Init /\ [][Next]_vars

\* Every call of main returns or raises and main is the only thread: a step
\* that can be taken is taken.
FairSpec == Spec /\ WF_vars(Next)

\* ------------------------------------------------- the watcher (start.py)

\* A file event as the handlers see it: which handler it goes to, what
\* guess_file_kind makes of its path, whether the path is a directory,
\* whether the file is gone by the time the handler compiles it (the user
\* has deleted or renamed it since the event), whether py_compile accepts
\* the file and whether it accepts the interface file the path belongs to
\* (the file itself for an interface file).
Events ==
    {e \in [type : {"created", "modified"},
            kind : {"IFACE", "TEST", "IMPL"},
            is_directory : BOOLEAN,
            missing : BOOLEAN,
            compiles : BOOLEAN,
            iface_compiles : BOOLEAN] :
        /\ e.kind = "IFACE" => e.iface_compiles = e.compiles
        /\ e.missing => ~e.compiles}

\* What the user may type at a prompt: Enter alone, or something else.
Typed == {"", "n"}

ImplLoopCondOffByOne(passed, count) == ~passed /\ count <= max_attempts

\* src/start.py:156
TestLoopCond(error, count) == error # NoText /\ count < max_attempts

\* src/start.py:207
ImplLoopCond(passed, count) == ~passed /\ count < max_attempts

\* The event the observer queues when a loop has written a file.  Python's
\* open(path, 'w') and write make the observer emit a modified event for
\* the path; the observer's queue skips an event equal to the one queued
\* last.  (The created event of a file that is new goes to on_created,
\* which does nothing for a test or implementation file, :235.)
Written(kind) == [type |-> "modified", kind |-> kind, is_directory |-> FALSE]

Emit(queue, e) ==
    IF queue # <<>> /\ Last(queue) = e THEN queue ELSE Append(queue, e)

WatchInit ==
    /\ pc = "watch"
    /\ MainInit
    /\ WatchIdle
    /\ PureIdle

\* src/start.py:229-238: on_created up to its prompt.  Only an interface
\* file makes it prompt; nothing is compiled before the user answers.
OnCreated ==
    /\ pc = "watch"
    /\ \E e \in Events :
          /\ e.type = "created"
          /\ event' = e
          /\ pc' = IF ~e.is_directory /\ e.kind = "IFACE"
                   THEN "input" ELSE "handled"
    /\ UNCHANGED <<test_str, impl_str, tests_pass, test_output,
                   num_test_rounds, num_impl_rounds, test_attempts,
                   impl_attempts, test_request, impl_request, test_file,
                   impl_file, report, repeats, log>>
    /\ UNCHANGED <<edits, user_input, pending, attempts_count,
                   compilation_error,
                   pure_vars>>

\* An on_modified that has the branch of a test file for every file that
\* is not an interface file.
SkippedDirectories(e) == e.is_directory

\* src/start.py:247-260: the events for which on_modified has no branch:
\* those of a directory and, guess_file_kind giving FileKind.IMPL (:105),
\* those of an implementation file.
Skipped(e) == e.is_directory \/ e.kind = "IMPL"

\* src/start.py:245-268: on_modified up to its prompt, for the event e.  An
\* interface file or a test file is compiled first; an error is printed and
\* the handler returns.  When the file is gone, FileNotFoundError leaves the
\* handler at :252 or :261 and nothing is printed.
on_modified(e) ==
    /\ event' = e
    /\ IF Skipped(e)
       THEN /\ pc' = "handled"
            /\ UNCHANGED <<compilation_error, report>>
       ELSE LET returned == try_compile_file(e.missing, e.compiles, FreshError)
            IN  IF returned = FileNotFoundError
                THEN /\ pc' = "raised"
                     /\ UNCHANGED <<compilation_error, report>>
                ELSE /\ compilation_error' = returned
                     /\ IF returned # NoText
                        THEN /\ pc' = "handled"
                             /\ report' = IF e.kind = "IFACE"
                                          THEN "iface_error" ELSE "test_error"
                        ELSE /\ pc' = "input"
                             /\ report' = report
    /\ UNCHANGED <<test_str, impl_str, tests_pass, test_output,
                   num_test_rounds, num_impl_rounds, test_attempts,
                   impl_attempts, test_request, impl_request, impl_file,
                   repeats, log>>
    /\ UNCHANGED <<edits, user_input, attempts_count, pure_vars>>

\* src/start.py:245-268 for an event of the user's editor: it has changed a
\* file of the project directory; a test file then holds the user's text,
\* which may be the empty text when py_compile accepts the file (a file of
\* 0 bytes compiles).
OnModified ==
    /\ pc = "watch"
    /\ \E e \in Events :
          /\ e.type = "modified"
          /\ on_modified(e)
          /\ IF ~e.is_directory /\ e.kind = "TEST"
             THEN test_file' \in {FreshTest} \cup
                                 (IF e.compiles THEN {NoText} ELSE {})
             ELSE test_file' = test_file
    /\ UNCHANGED pending

\* src/start.py:319-321: the observer's thread calls the handler for the next
\* queued event once the handler has returned.  The queued events are those
\* of the files the loops have written and the user's editor has saved.  The
\* handler may have returned long after the event was queued (it waits at a
\* prompt): the file may be gone by then.  Otherwise a test file that holds
\* a text of known standing compiles or not as that text does, and one that
\* holds a generated text is the one compiled last, so it compiles exactly
\* when that compilation gave no error.
Dispatch ==
    /\ pc = "handled"
    /\ pending # <<>>
    /\ \E missing \in BOOLEAN :
          on_modified([type |-> Head(pending).type,
                       kind |-> Head(pending).kind,
                       is_directory |-> Head(pending).is_directory,
                       missing |-> missing,
                       compiles |-> /\ ~missing
                                    /\ IF CompileOutcomes(test_file) = BOOLEAN
                                       THEN compilation_error = NoText
                                       ELSE TRUE \in CompileOutcomes(test_file),
                       iface_compiles |-> event.iface_compiles])
    /\ pending' = Tail(pending)
    /\ UNCHANGED test_file

\* src/start.py:238-243, 257-259, 268-274: input() returns.  Anything but
\* Enter ends the handler.  After Enter on_created compiles the interface
\* file and prints the error or starts the test loop, and when the file is
\* gone FileNotFoundError leaves the handler at :240 with nothing printed;
\* on_modified starts the test loop for an interface file and the
\* implementation loop for a test file.
UserInput ==
    /\ pc = "input"
    /\ \E typed \in Typed :
          /\ user_input' = typed
          /\ IF typed # ""
             THEN /\ pc' = "handled"
                  /\ UNCHANGED <<compilation_error, report>>
             ELSE IF event.type = "created"
                  THEN LET returned == try_compile_file(event.missing,
                                           event.compiles, FreshError)
                       IN  IF returned = FileNotFoundError
                           THEN /\ pc' = "raised"
                                /\ UNCHANGED <<compilation_error, report>>
                           ELSE /\ compilation_error' = returned
                                /\ IF returned # NoText
                                   THEN pc' = "handled" /\ report' = "iface_error"
                                   ELSE pc' = "test_loop" /\ report' = report
                  ELSE /\ pc' = IF event.kind = "IFACE"
                                THEN "test_loop" ELSE "impl_loop"
                       /\ UNCHANGED <<compilation_error, report>>
    /\ UNCHANGED <<test_str, impl_str, tests_pass, test_output,
                   num_test_rounds, num_impl_rounds, test_attempts,
                   impl_attempts, test_request, impl_request, test_file,
                   impl_file, repeats, log>>
    /\ UNCHANGED <<edits, event, pending, attempts_count, pure_vars>>

\* What reading the files of a loop gives (src/start.py:140-146, 185-193):
\* the text; an IOError, which is printed and ends the loop; or, for a file
\* that is not UTF-8, a UnicodeDecodeError, which `except IOError` does not
\* catch and which leaves the handler.
ReadOutcomes == {"read", "IOError", "UnicodeDecodeError"}

\* src/start.py:139-150 and src/agents/test_generator.py:125-129:
\* test_iteration_loop reads the interface file and builds the request for
\* the first test file; str_to_str builds the initial prompt and the
\* handler's thread waits for the agent.
TestLoopStart ==
    /\ pc = "test_loop"
    /\ \E read \in ReadOutcomes :
          CASE read = "IOError" ->
                 /\ pc' = "handled"
                 /\ report' = "read_error"
                 /\ UNCHANGED test_request
            [] read = "UnicodeDecodeError" ->
                 /\ pc' = "raised"
                 /\ UNCHANGED <<report, test_request>>
            [] read = "read" ->
                 /\ pc' = "test_wait"
                 /\ test_request' = TestGenerationRequest(interface_code, <<>>)
                 /\ UNCHANGED report
    /\ UNCHANGED <<test_str, impl_str, tests_pass, test_output,
                   num_test_rounds, num_impl_rounds, test_attempts,
                   impl_attempts, impl_request, test_file, impl_file,
                   repeats, log>>
    /\ UNCHANGED <<watch_vars, pure_vars>>

\* src/agents/test_generator.py:129-136: the agent has answered or raised;
\* str_to_file writes the text to the test file and returns it.
TestLoopAnswer ==
    /\ pc = "test_wait"
    /\ \E out \in test_str_to_str(FreshTest, test_request) :
          /\ repeats' = Repeated(FreshTest, out)
          /\ log' = Append(log, GenTestEvent(test_request, out))
          /\ IF out \in Exceptions
             THEN /\ pc' = AfterRaise("test_compile")
                  /\ UNCHANGED <<test_str, test_file, pending>>
             ELSE /\ pc' = "test_compile"
                  /\ pending' = Emit(pending, Written("TEST"))
                  /\ test_str' = str_to_file(out).returned
                  /\ test_file' = Last(str_to_file(out).written)
    /\ UNCHANGED <<impl_str, tests_pass, test_output, num_test_rounds,
                   num_impl_rounds, test_attempts, impl_attempts,
                   test_request, impl_request, impl_file, report>>
    /\ UNCHANGED <<edits, event, user_input, attempts_count,
                   compilation_error, pure_vars>>

\* src/start.py:151-154: the first test file is compiled and the attempts
\* are counted from zero.  The error text of a generated file is named
\* after the generation that wrote it.  When the file is gone (deleted since
\* str_to_file wrote it) FileNotFoundError leaves the handler at :151.
TestLoopCompile ==
    /\ pc = "test_compile"
    /\ \E missing \in BOOLEAN, compiles \in CompileOutcomes(test_file) :
          LET returned == try_compile_file(missing, compiles, Len(log)) IN
          IF returned = FileNotFoundError
          THEN /\ pc' = "raised"
               /\ UNCHANGED <<compilation_error, attempts_count>>
          ELSE /\ compilation_error' = returned
               /\ attempts_count' = 0
               /\ pc' = "test_check"
    /\ UNCHANGED <<test_str, impl_str, tests_pass, test_output,
                   num_test_rounds, num_impl_rounds, test_attempts,
                   impl_attempts, test_request, impl_request, test_file,
                   impl_file, report, repeats, log>>
    /\ UNCHANGED <<edits, event, user_input, pending, pure_vars>>

\* src/start.py:156-166: the test file did not compile; a new one is
\* requested with the one before and its error as the only prior attempt.
\* The request has a prior attempt, so str_to_str raises TypeError
\* (test_str_to_str) and the handler is left at :166.
TestLoopIter ==
    /\ pc = "test_check"
    /\ TestLoopCond(compilation_error, attempts_count)
    /\ LET attempt == GenerationAttempt(test_str, compilation_error)
           request == TestGenerationRequest(interface_code, <<attempt>>)
       IN
       \E out \in test_str_to_str(FreshTest, request) :
          /\ attempts_count' = attempts_count + 1
          /\ test_request' = request
          /\ repeats' = Repeated(FreshTest, out)
          /\ log' = Append(log, GenTestEvent(request, out))
          /\ IF out \in Exceptions
             THEN /\ pc' = AfterRaise("test_recompile")
                  /\ UNCHANGED <<test_str, test_file, pending>>
             ELSE /\ pc' = "test_recompile"
                  /\ pending' = Emit(pending, Written("TEST"))
                  /\ test_str' = str_to_file(out).returned
                  /\ test_file' = Last(str_to_file(out).written)
    /\ UNCHANGED <<impl_str, tests_pass, test_output, num_test_rounds,
                   num_impl_rounds, test_attempts, impl_attempts, impl_request,
                   impl_file, report>>
    /\ UNCHANGED <<edits, event, user_input, compilation_error, pure_vars>>

\* src/start.py:167: the regenerated test file is compiled.  This line
\* follows the call of :166, which never returns: no behaviour of the
\* watcher gets here, and the step is not one of WatchNext.
TestLoopRecompile ==
    /\ pc = "test_recompile"
    /\ \E compiles \in CompileOutcomes(test_file) :
          compilation_error' = try_compile_file(FALSE, compiles, Len(log))
    /\ pc' = "test_check"
    /\ UNCHANGED <<test_str, impl_str, tests_pass, test_output,
                   num_test_rounds, num_impl_rounds, test_attempts,
                   impl_attempts, test_request, impl_request, test_file,
                   impl_file, report, repeats, log>>
    /\ UNCHANGED <<edits, event, user_input, pending, attempts_count,
                   pure_vars>>

\* src/start.py:169-174: the report of the test loop.
TestLoopReport ==
    /\ pc = "test_check"
    /\ ~TestLoopCond(compilation_error, attempts_count)
    /\ report' = IF compilation_error # NoText
                 THEN "test_giveup" ELSE "test_success"
    /\ pc' = "handled"
    /\ UNCHANGED <<test_str, impl_str, tests_pass, test_output,
                   num_test_rounds, num_impl_rounds, test_attempts,
                   impl_attempts, test_request, impl_request, test_file,
                   impl_file, repeats, log>>
    /\ UNCHANGED <<watch_vars, pure_vars>>

\* src/start.py:185-201 and src/agents/impl_generator.py:131-136:
\* impl_iteration_loop reads the interface file and the test file and builds
\* the request for the first implementation; str_to_str builds the initial
\* prompt and the handler's thread waits for the agent.
ImplLoopStart ==
    /\ pc = "impl_loop"
    /\ \E read \in ReadOutcomes :
          CASE read = "IOError" ->
                 /\ pc' = "handled"
                 /\ report' = "read_error"
                 /\ UNCHANGED <<test_str, impl_request>>
            [] read = "UnicodeDecodeError" ->
                 /\ pc' = "raised"
                 /\ UNCHANGED <<report, test_str, impl_request>>
            [] read = "read" ->
                 /\ pc' = "impl_wait"
                 /\ test_str' = test_file
                 /\ impl_request' =
                       ImplGenerationRequest(interface_code, test_file, <<>>)
                 /\ UNCHANGED report
    /\ UNCHANGED <<impl_str, tests_pass, test_output, num_test_rounds,
                   num_impl_rounds, test_attempts, impl_attempts,
                   test_request, test_file, impl_file, repeats, log>>
    /\ UNCHANGED <<watch_vars, pure_vars>>

\* src/agents/impl_generator.py:136-155: the agent has answered or raised,
\* for the first request of the loop or for one of its loop body;
\* str_to_file writes the text to the implementation file and returns it.
ImplLoopAnswer ==
    /\ pc \in {"impl_wait", "impl_rewait"}
    /\ LET next == IF pc = "impl_wait" THEN "impl_loop_run" ELSE "impl_rerun"
       IN
       \E out \in impl_str_to_str(FreshImpl, impl_request) :
          /\ repeats' = Repeated(FreshImpl, out)
          /\ log' = Append(log, GenImplEvent(impl_request, out))
          /\ IF out \in Exceptions
             THEN /\ pc' = AfterRaise(next)
                  /\ UNCHANGED <<impl_str, impl_file, pending>>
             ELSE /\ pc' = next
                  /\ pending' = Emit(pending, Written("IMPL"))
                  /\ impl_str' = str_to_file(out).returned
                  /\ impl_file' = Last(str_to_file(out).written)
    /\ UNCHANGED <<test_str, tests_pass, test_output, num_test_rounds,
                   num_impl_rounds, test_attempts, impl_attempts,
                   test_request, impl_request, test_file, report>>
    /\ UNCHANGED <<edits, event, user_input, attempts_count,
                   compilation_error, pure_vars>>

\* src/start.py:202-205: the oracle runs on the first implementation; the
\* attempts are empty and counted from zero.
ImplLoopRun ==
    /\ pc = "impl_loop_run"
    /\ \E r \in OracleResults :
          LET result == start_run_tests(r.successful, r.failure_report) IN
          /\ tests_pass' = result[1]
          /\ test_output' = result[2]
          /\ log' = Append(log, RunEvent(test_file, impl_file,
                                         result[1], result[2]))
    /\ impl_attempts' = <<>>
    /\ attempts_count' = 0
    /\ pc' = "impl_check"
    /\ UNCHANGED <<test_str, impl_str, num_test_rounds, num_impl_rounds,
                   test_attempts, test_request, impl_request, test_file,
                   impl_file, report, repeats>>
    /\ UNCHANGED <<edits, event, user_input, pending, compilation_error,
                   pure_vars>>

\* src/start.py:207-218 and src/agents/impl_generator.py:131-136: the tests
\* failed; the rejected implementation is added to the attempts and the
\* request for a new one is built; str_to_str builds the improvement prompt
\* and the handler's thread waits for the agent.
ImplLoopIter ==
    /\ pc = "impl_check"
    /\ ImplLoopCond(tests_pass, attempts_count)
    /\ LET attempts == AppendImplAttempt(impl_attempts, impl_str, test_output)
       IN
       /\ attempts_count' = attempts_count + 1
       /\ impl_attempts' = attempts
       /\ impl_request' =
             ImplGenerationRequest(interface_code, test_str, attempts)
    /\ pc' = "impl_rewait"
    /\ UNCHANGED <<test_str, impl_str, tests_pass, test_output,
                   num_test_rounds, num_impl_rounds, test_attempts,
                   test_request, test_file, impl_file, report, repeats, log>>
    /\ UNCHANGED <<edits, event, user_input, pending, compilation_error,
                   pure_vars>>

\* src/start.py:219: the oracle runs on the new implementation.
ImplLoopRerun ==
    /\ pc = "impl_rerun"
    /\ \E r \in OracleResults :
          LET result == start_run_tests(r.successful, r.failure_report) IN
          /\ tests_pass' = result[1]
          /\ test_output' = result[2]
          /\ log' = Append(log, RunEvent(test_file, impl_file,
                                         result[1], result[2]))
    /\ pc' = "impl_check"
    /\ UNCHANGED <<test_str, impl_str, num_test_rounds, num_impl_rounds,
                   test_attempts, impl_attempts, test_request, impl_request,
                   test_file, impl_file, report, repeats>>
    /\ UNCHANGED <<watch_vars, pure_vars>>

\* src/start.py:221-226: the report of the implementation loop.
ImplLoopReport ==
    /\ pc = "impl_check"
    /\ ~ImplLoopCond(tests_pass, attempts_count)
    /\ report' = IF tests_pass THEN "impl_success" ELSE "impl_giveup"
    /\ pc' = "handled"
    /\ UNCHANGED <<test_str, impl_str, tests_pass, test_output,
                   num_test_rounds, num_impl_rounds, test_attempts,
                   impl_attempts, test_request, impl_request, test_file,
                   impl_file, repeats, log>>
    /\ UNCHANGED <<watch_vars, pure_vars>>

\* A handler of the watcher has been called: the observer's thread is in
\* it, has returned from it, or was left by an exception in it.
Waiting == event # NoEvent

\* The user's editor saves the test file or the implementation file while
\* the observer's thread is in a handler, at any line of it, or after it;
\* the observer's emitter thread queues the modified event of the file
\* (src/start.py:319-321).  The text saved is the empty text, one that
\* py_compile accepts or one that it rejects.  (The save that starts a
\* session is the event of OnCreated or OnModified.)
UserSaves ==
    /\ Waiting
    /\ Oddities < MaxOddities
    /\ edits' = edits + 1
    /\ \E kind \in {"TEST", "IMPL"}, text \in {NoText} \cup UserTexts :
          /\ pending' = Emit(pending, Written(kind))
          /\ test_file' = IF kind = "TEST" THEN text ELSE test_file
          /\ impl_file' = IF kind = "IMPL" THEN text ELSE impl_file
    /\ UNCHANGED <<pc, test_str, impl_str, tests_pass, test_output,
                   num_test_rounds, num_impl_rounds, test_attempts,
                   impl_attempts, test_request, impl_request, report,
                   repeats, log>>
    /\ UNCHANGED <<event, user_input, attempts_count, compilation_error,
                   pure_vars>>

WatchNext ==
    \/ OnCreated
    \/ OnModified
    \/ UserInput
    \/ TestLoopStart
    \/ TestLoopAnswer
    \/ TestLoopCompile
    \/ TestLoopIter
    \/ TestLoopReport
    \/ ImplLoopStart
    \/ ImplLoopAnswer
    \/ ImplLoopRun
    \/ ImplLoopIter
    \/ ImplLoopRerun
    \/ ImplLoopReport
    \/ UserSaves
    \/ Dispatch

\* The watcher from one event of the user's editor until no event is queued;
\* meanwhile the editor may save a file.
WatchSpec == WatchInit /\ [][WatchNext]_vars

\* The two programs: a session of demo.main or the watcher.
ProgramsNext == Next \/ WatchNext

ProgramsSpec == (Init \/ WatchInit) /\ [][ProgramsNext]_vars

\* ---------------------------------------------------------- observations

IsPrefix(s, t) == Len(s) <= Len(t) /\ SubSeq(t, 1, Len(s)) = s

\* The position of the most recent call of one kind at or before position i
\* of the log, 0 when there is none.
RECURSIVE LastUpTo(_, _)
LastUpTo(op, i) ==
    IF i = 0 THEN 0
    ELSE IF log[i].op = op THEN i
    ELSE LastUpTo(op, i - 1)

Min(S) == CHOOSE x \in S : \A y \in S : x <= y

\* An implementation retry (a request with prior attempts), a regeneration
\* of the test suite.
IsImplRetry(e) == e.op = "gen_impl" /\ e.request.prior_attempts # <<>>
IsTestRegen(e) == e.op = "gen_test" /\ e.request.prior_attempts # <<>>

ImplRetries == {i \in DOMAIN log : IsImplRetry(log[i])}
TestRegens == {i \in DOMAIN log : IsTestRegen(log[i])}

\* The agent raised in some generation call; some call raised TypeError.
AgentRaised == \E i \in DOMAIN log : log[i].op # "run" /\ log[i].out = Raised
FirstRunPassed == Indices("run") # {} /\ log[Min(Indices("run"))].passed
AllRunsFailed == \A i \in Indices("run") : ~log[i].passed

\* ------------------------------------------------------------------ C1
\* C1: whatever the oracle and the generators answer, main reaches its end, and it never makes more than 1 + T*I implementation generations nor
\* more than 1 + T test-suite generations.
C1_TerminatesWithinBudget ==
    /\ [](/\ Count("gen_impl") <= 1 + max_test_rounds * max_impl_rounds
          /\ Count("gen_test") <= 1 + max_test_rounds)
    /\ <>(pc \in Terminal)

\* A session with as many implementation generations as main gets to make:
\* the first and max_impl_rounds retries, the last of which passes.
C1_Witness ==
    /\ pc = "done"
    /\ Count("gen_impl") = 1 + max_impl_rounds
    /\ Count("gen_test") = 1

\* ------------------------------------------------------------------ C2
\* C2: when the first oracle run passes, there is exactly one test
\* generation, one implementation generation and one oracle run, both attempt
\* histories stay empty, and the session ends with the success report.
C2_FirstRunPasses ==
    /\ [](FirstRunPassed =>
            /\ Count("gen_test") = 1
            /\ Count("gen_impl") = 1
            /\ Count("run") = 1
            /\ test_attempts = <<>>
            /\ impl_attempts = <<>>
            /\ report \in {"none", "success"})
    /\ (FirstRunPassed ~> (pc = "done" /\ report = "success"))

C2_Witness == FirstRunPassed /\ pc = "done" /\ report = "success"

\* ------------------------------------------------------------------ C3
\* C3 as stated: a session in which every oracle run failed and no agent
\* call raised has, when it is over, ended at its report, with exactly
\* 1 + T*I implementation generations, the give-up report and a test-attempt
\* history of length T.
C3_AlwaysFailing ==
    (pc \in Terminal /\ Indices("run") # {} /\ AllRunsFailed /\ ~AgentRaised) =>
        /\ pc = "done"
        /\ Count("gen_impl") = 1 + max_test_rounds * max_impl_rounds
        /\ report = "giveup"
        /\ Len(test_attempts) = max_test_rounds

\* ------------------------------------------------------------------ C4
\* C4: at every implementation retry the last prior attempt of the request
\* holds the implementation the most recent oracle run executed and the
\* diagnostic that run returned.  (No retry follows a test regeneration:
\* the regeneration raises, C3.)
C4_LastAttemptIsFresh ==
    \A i \in ImplRetries :
        /\ LastUpTo("run", i - 1) > 0
        /\ LET attempt == Last(log[i].request.prior_attempts)
               run == log[LastUpTo("run", i - 1)]
           IN  /\ attempt.code = run.impl
               /\ attempt.errors = run.diag

\* The last retry of the round, after two retries that returned new texts
\* and failed with a report that is not empty.
C4_Witness ==
    \E i \in ImplRetries :
        /\ Len(log[i].request.prior_attempts) = max_impl_rounds
        /\ Last(log[i].request.prior_attempts).errors # NoText
        /\ Last(log[i].request.prior_attempts).errors #
              log[i].request.prior_attempts[1].errors
        /\ Last(log[i].request.prior_attempts).code #
              log[i].request.prior_attempts[1].code

\* ------------------------------------------------------------------ C5
\* The attempts the implementation retries up to position i of the log were
\* asked to improve, in order.
RejectedUpTo(i) ==
    LET retries == SelectSeq(SubSeq(log, 1, i), IsImplRetry)
    IN  [k \in 1..Len(retries) |-> Last(retries[k].request.prior_attempts)]

\* C5 as stated: every implementation retry request carries, in order, every
\* implementation attempt rejected so far in the session, those rejected
\* under earlier test suites included: with more than one test round
\* allowed, a session in which every run failed and no agent call raised is
\* not over before an implementation retry was requested under the suite of
\* its first regeneration, carrying the attempts rejected under the first
\* suite as well.
C5_FullImplHistory ==
    /\ \A i \in ImplRetries : log[i].request.prior_attempts = RejectedUpTo(i)
    /\ (/\ max_test_rounds > 1
        /\ pc \in Terminal
        /\ TestRegens # {}
        /\ AllRunsFailed
        /\ ~AgentRaised) =>
          \E j \in ImplRetries :
              /\ j > Min(TestRegens)
              /\ Len(log[j].request.prior_attempts) > max_impl_rounds

\* ------------------------------------------------------------------ C6
\* C6: when the implementation budget of a test round is used up without a
\* pass, the next step appends exactly one attempt (the current test suite,
\* the most recent oracle diagnostic) to the test-attempt history and
\* requests a test suite with the whole history; no step ever removes or
\* changes an entry of the test-attempt history.
C6_TestHistoryAppendOnly ==
    [][/\ IsPrefix(test_attempts, test_attempts')
       /\ (pc = "inner" /\ ~tests_pass /\ num_impl_rounds = 0) =>
            /\ test_attempts' =
                 Append(test_attempts,
                        GenerationAttempt(test_str,
                                          log[LastUpTo("run", Len(log))].diag))
            /\ Len(log') = Len(log) + 1
            /\ Last(log').op = "gen_test"
            /\ Last(log').request.prior_attempts = test_attempts'
      ]_vars

\* The regeneration has been requested with the rejected suite and a
\* diagnostic that is not empty.
C6_Witness ==
    /\ Len(test_attempts) = 1
    /\ test_attempts[1].code = test_str
    /\ test_attempts[1].errors # NoText
    /\ IsTestRegen(Last(log))
    /\ Last(log).request.prior_attempts = test_attempts

\* ------------------------------------------------------------------ C7
\* C7: a test suite is regenerated only right after a failed oracle run,
\* with the implementation budget at zero and max_impl_rounds retries made
\* on the suite; and no test suite ever sees more than I implementation
\* retries.
RetriesOnSuiteUpTo(i) ==
    {j \in LastUpTo("gen_test", i) + 1 .. i : IsImplRetry(log[j])}

C7_RegenerateOnlyWhenExhausted ==
    /\ \A i \in TestRegens :
         /\ i > 1
         /\ log[i - 1].op = "run"
         /\ ~log[i - 1].passed
         /\ Cardinality(RetriesOnSuiteUpTo(i - 1)) = max_impl_rounds
    /\ (log # <<>> /\ IsTestRegen(Last(log))) =>
         ~tests_pass /\ num_impl_rounds = 0
    /\ \A i \in ImplRetries :
         Cardinality(RetriesOnSuiteUpTo(i)) <= max_impl_rounds

C7_Witness ==
    /\ log # <<>>
    /\ IsTestRegen(Last(log))
    /\ Cardinality(RetriesOnSuiteUpTo(Len(log) - 1)) = max_impl_rounds
    /\ num_impl_rounds = 0

\* ------------------------------------------------------------------ C8
\* C8 as stated: whenever the outer loop's condition is evaluated the
\* implementation budget is I, and when a session in which no agent call
\* raised is over, the test budget is T less the number of test
\* regenerations requested, one less per regeneration.
C8_BudgetsAfterRegeneration ==
    /\ pc = "outer" => num_impl_rounds = max_impl_rounds
    /\ (pc \in Terminal /\ ~AgentRaised) =>
         num_test_rounds = max_test_rounds - Cardinality(TestRegens)

\* ------------------------------------------------------------------ C9
\* C9 as stated: the call that follows a test regeneration is an oracle run
\* on the new suite and the last generated implementation, and a session in
\* which no agent call raised is not over before that run; when the run
\* passes, no call follows it and the session goes to its end with the
\* success report.
C9_RunAfterRegeneration ==
    \A i \in TestRegens :
        /\ (pc \in Terminal /\ ~AgentRaised) => i < Len(log)
        /\ i < Len(log) =>
            /\ log[i + 1].op = "run"
            /\ log[i + 1].test = log[i].out
            /\ log[i + 1].impl = log[LastUpTo("gen_impl", i)].out
            /\ log[i + 1].passed =>
                 /\ Len(log) = i + 1
                 /\ pc \in {"outer", "report", "done"}
                 /\ pc = "done" => report = "success"

\* ------------------------------------------------------------------ C10
\* C10: a passing oracle run is the last call of the session: no generation
\* and no oracle run follows it.
C10_SuccessIsTerminal ==
    \A i \in Indices("run") : log[i].passed => i = Len(log)

\* A pass on an implementation retry, with the session over.
C10_Witness ==
    /\ pc = "done"
    /\ Len(log) > 3
    /\ Last(log).passed
    /\ IsImplRetry(log[Len(log) - 1])

\* ------------------------------------------------------------------ C11
\* C11 as stated: main prints nothing terminal before its end, and a session
\* that has made its first oracle run and in which no agent call raised has,
\* when it is over, printed exactly one of the two reports: success exactly
\* when the last oracle run passed, give-up exactly when the test budget is
\* zero and the last oracle run failed.
LastRunPassed == log[LastUpTo("run", Len(log))].passed

C11_OneTerminalReport ==
    /\ pc \notin {"done", "aborted"} => report = "none"
    /\ (pc \in Terminal /\ Indices("run") # {} /\ ~AgentRaised) =>
         /\ pc = "done"
         /\ report \in {"success", "giveup"}
         /\ report = "success" <=> LastRunPassed
         /\ report = "giveup" <=> (num_test_rounds = 0 /\ ~LastRunPassed)

\* ------------------------------------------------------------------ C13
\* C13: a generation call that raised is the last call of the session: no
\* step follows it (no retry, no oracle run, no report), and the step that
\* made it left both budgets as they were and left main.
HasRaised ==
    log # <<>> /\ Last(log).op # "run" /\ Last(log).out \in Exceptions

C13_RaisePropagates ==
    [][/\ ~HasRaised
       /\ HasRaised' =>
            /\ pc' = "raised"
            /\ num_test_rounds' = num_test_rounds
            /\ num_impl_rounds' = num_impl_rounds
            /\ report' = "none"
      ]_vars

\* An implementation retry that raised.
C13_Witness ==
    /\ pc = "raised"
    /\ HasRaised
    /\ IsImplRetry(Last(log))
    /\ num_impl_rounds = max_impl_rounds - 1

\* ------------------------------------------------------------------ C14
\* C14: a generation call that returned an answer without a python code
\* block ends the round: no oracle run is made on the empty text it leaves
\* as the test suite or as the implementation.
C14_UnusableOutputEndsRound ==
    \A i \in Indices("run") : log[i].test # NoText /\ log[i].impl # NoText

\* ------------------------------------------------------------------ C16
\* C16 as stated: the calls of a session come one after the other in this
\* order: the initial test generation, then the initial implementation
\* generation, which is given the text the first returned; after that every
\* generation call in which the agent did not raise, implementation
\* generation or test regeneration, is followed by an oracle run on the text
\* it returned before any other generation call, the session is not over
\* before that run, and no two oracle runs follow each other.
C16_Serialized ==
    /\ Len(log) >= 1 => log[1].op = "gen_test"
    /\ Len(log) >= 2 =>
         /\ log[2].op = "gen_impl"
         /\ log[2].request.test_str = log[1].out
    /\ \A i \in 2 .. Len(log) :
         /\ (log[i].op # "run" /\ log[i].out # Raised) =>
              /\ pc \in Terminal => i < Len(log)
              /\ i < Len(log) =>
                   /\ log[i + 1].op = "run"
                   /\ log[i].op = "gen_impl" => log[i + 1].impl = log[i].out
                   /\ log[i].op = "gen_test" => log[i + 1].test = log[i].out
         /\ (log[i].op = "run" /\ i < Len(log)) => log[i + 1].op # "run"

\* ------------------------------------------------------------------ C12
\* The interface file the program is looking at does not compile: in main
\* try_compile_file returned an error; in the watcher the handler is called
\* with the event of an interface file that is there and that py_compile
\* rejects.
InterfaceBroken ==
    IF event = NoEvent
    THEN compilation_error # NoText
    ELSE /\ ~event.is_directory
         /\ event.kind = "IFACE"
         /\ ~event.compiles
         /\ ~event.missing

\* The handler is called with the event of an interface file that is gone
\* by the time the handler compiles it.
InterfaceMissing ==
    /\ event # NoEvent
    /\ ~event.is_directory
    /\ event.kind = "IFACE"
    /\ event.missing

NoGenerationCall == Indices("gen_test") \cup Indices("gen_impl") = {}

Finished == pc \in Terminal \cup {"handled"}

\* C12 as stated: when the interface file does not compile, no generation
\* call is made, and main, on_created and on_modified for an interface file
\* have reported the error when they end.
C12_BrokenInterfaceReported ==
    InterfaceBroken =>
        /\ NoGenerationCall
        /\ Finished => report = "iface_error"

\* C12, amended: when py_compile rejects the interface file, no generation
\* call is made by main or by the handler of the interface file's event, and
\* main and on_modified have reported the error when they end; on_created
\* has reported it when it ends after the user answered its prompt with
\* Enter, and has reported nothing after any other answer.  When the
\* interface file is gone by the time a handler of the watcher compiles it,
\* the handler makes no generation call either, and it is left by
\* FileNotFoundError with nothing reported (on_created when the user
\* answered otherwise than with Enter has not compiled the file and ends
\* with nothing reported).
C12_BrokenInterfaceNeverGenerated ==
    /\ InterfaceBroken =>
          /\ NoGenerationCall
          /\ pc # "raised"
          /\ Finished =>
               IF event # NoEvent /\ event.type = "created" /\ user_input # ""
               THEN report = "none"
               ELSE report = "iface_error"
    /\ InterfaceMissing =>
          /\ NoGenerationCall
          /\ report = "none"
          /\ Finished =>
               pc = IF event.type = "created" /\ user_input # ""
                    THEN "handled" ELSE "raised"

\* on_created, a file saved by the editor while it waited at its prompt,
\* Enter typed, the error of the interface file printed.
C12_Witness ==
    /\ pc = "handled"
    /\ event # NoEvent
    /\ event.type = "created"
    /\ InterfaceBroken
    /\ user_input = ""
    /\ report = "iface_error"
    /\ edits > 0

\* ------------------------------------------- the oracle (run_tests) alone

\* How many tests a discovered suite has at most.
MaxTests == 3

\* What one test of the suite may do.
TestOutcomes == {"ok", "error", "failure", "unexpected_success"}

Suites == UNION {[1 .. n -> TestOutcomes] : n \in 0 .. MaxTests}

\* The unittest result of a suite: the tests are named by their position,
\* errors and failures are pairs of a test and its traceback.
Positions(outcomes, what) ==
    SelectSeq([i \in 1 .. Len(outcomes) |-> i],
              LAMBDA i : outcomes[i] = what)

TestResult(outcomes) ==
    [errors |->
        [k \in 1 .. Len(Positions(outcomes, "error")) |->
            <<Positions(outcomes, "error")[k],
              <<"traceback", Positions(outcomes, "error")[k]>> >>],
     failures |->
        [k \in 1 .. Len(Positions(outcomes, "failure")) |->
            <<Positions(outcomes, "failure")[k],
              <<"traceback", Positions(outcomes, "failure")[k]>> >>],
     unexpectedSuccesses |-> Positions(outcomes, "unexpected_success")]

\* wasSuccessful with the errors left out.
wasSuccessfulFailuresOnly(result) ==
    result.failures = <<>> /\ result.unexpectedSuccesses = <<>>

\* result.wasSuccessful() (src/demo.py:139): no failure, no error, no
\* unexpected success.
wasSuccessful(result) ==
    /\ result.failures = <<>>
    /\ result.errors = <<>>
    /\ result.unexpectedSuccesses = <<>>

\* src/demo.py:145-147 and :151-153: two lines for every entry.
RECURSIVE EntryLines(_, _)
EntryLines(entries, label) ==
    IF entries = <<>>
    THEN <<>>
    ELSE << <<"  Test: ", Head(entries)[1]>>, <<label, Head(entries)[2]>> >>
         \o EntryLines(Tail(entries), label)

\* src/demo.py:142-153: the lines of the diagnostic.
OutputLines(result) ==
    (IF result.errors # <<>>
     THEN << <<"\nErrors:">> >> \o EntryLines(result.errors, "  Error: ")
     ELSE <<>>)
    \o
    (IF result.failures # <<>>
     THEN << <<"\nFailures:">> >> \o EntryLines(result.failures, "  Failure: ")
     ELSE <<>>)

\* '\n'.join(output) (src/demo.py:155): a text is the sequence of its
\* lines, and the join of no line is the empty text.
JoinLines(lines) == IF lines = <<>> THEN NoText ELSE lines

\* run_tests of demo.py or of start.py on the result of a suite.
RunTestsOf(program, result) ==
    IF program = "demo"
    THEN run_tests(wasSuccessful(result), JoinLines(OutputLines(result)))
    ELSE start_run_tests(wasSuccessful(result), JoinLines(OutputLines(result)))

OracleInit ==
    /\ pc = "oracle"
    /\ MainInit
    /\ WatchIdle
    /\ arg \in [program : {"demo", "start"}, outcomes : Suites]
    /\ res = <<>>

RunTests ==
    /\ pc = "oracle"
    /\ res' = RunTestsOf(arg.program, TestResult(arg.outcomes))
    /\ pc' = "oracle_done"
    /\ UNCHANGED <<test_str, impl_str, tests_pass, test_output,
                   num_test_rounds, num_impl_rounds, test_attempts,
                   impl_attempts, test_request, impl_request, test_file,
                   impl_file, report, repeats, log>>
    /\ UNCHANGED <<watch_vars, arg>>

OracleNext == RunTests

OracleSpec == OracleInit /\ [][OracleNext]_vars

\* ------------------------------------------------------------------ C15
\* The pair of lines of one entry stands in the diagnostic.
HasEntry(diag, label, entry) ==
    \E i \in 1 .. Len(diag) - 1 :
        /\ diag[i] = <<"  Test: ", entry[1]>>
        /\ diag[i + 1] = <<label, entry[2]>>

\* C15: when a test of the suite errors or fails, run_tests of demo.py and
\* of start.py returns passed = false, whichever of the two it was, and the
\* diagnostic holds for every erroring and every failing test the line of
\* its id followed by the line of its detail, and no other entry.
C15_ErrorsAndFailuresReported ==
    pc = "oracle_done" =>
        LET result == TestResult(arg.outcomes)
            entries == Len(result.errors) + Len(result.failures)
        IN  entries > 0 =>
              /\ res[1] = FALSE
              /\ \A k \in DOMAIN result.errors :
                    HasEntry(res[2], "  Error: ", result.errors[k])
              /\ \A k \in DOMAIN result.failures :
                    HasEntry(res[2], "  Failure: ", result.failures[k])
              /\ Cardinality({i \in DOMAIN res[2] :
                                 res[2][i][1] = "  Test: "}) = entries

\* A suite with an erroring and a failing test, run by start.run_tests.
C15_Witness ==
    /\ pc = "oracle_done"
    /\ arg.program = "start"
    /\ TestResult(arg.outcomes).errors # <<>>
    /\ TestResult(arg.outcomes).failures # <<>>
    /\ res[1] = FALSE

\* -------------------------------------------- the prompt builders alone

\* A prompt is the sequence of its parts, in order: the literal sentences of
\* the source, and the texts put between markdown fences.  The texts of a
\* request are atoms; a text is in a prompt verbatim when a fenced part
\* holds it.
Lit(text) == [kind |-> "literal", text |-> text]

\* utils.wrap_code_in_markdown(code) inside a prompt, and the bare fence
\* around the errors, which names no language (language "").
Fenced(text, language) == [kind |-> "fence", language |-> language, text |-> text]

\* src/agents/impl_generator.py:52-63 and src/agents/test_generator.py:59-73
example_impl == "example_impl"
example_test == "example_test"

\* The directive sentences of the implementation prompts
\* (src/agents/impl_generator.py:68-70 and :110-111).
NameAndInherit ==
    "Make sure the name of the class ends with \"Impl\", and it inherits from the interface. "
\* (the two backquotes around @abstractmethod are written as ' here: a
\* string of this language cannot hold a backquote)
NotAbstract ==
    "The code you will generate is *not* an abstract class, and does *not* have any '@abstractmethod' annotations. "
InterfaceExistsDoNotAdd ==
    "The interface itself already exists in the same directory, so do not add it here. "
NameAndInheritRecalled ==
    "Your instructions were to make sure the name of the class ends with \"Impl\", and it inherits from the interface. "
InterfaceExistsAssume ==
    "You can assume the interface exists the same directory as the implementation being generated. "

\* ImplGenerator._make_initial_prompt with the interface left out.
ImplInitialPromptNoInterface(python_interface, test) ==
    << Lit("Generate an implementation of the following python interface:\n\n"),
       Lit(NameAndInherit),
       Lit(NotAbstract),
       Lit(InterfaceExistsDoNotAdd),
       Lit("The test suite that should pass looks like this:\n\n"),
       Fenced(test, "python"),
       Lit("An example implementation might look something like this:\n\n"),
       Fenced(example_impl, "python") >>

\* ImplGenerator._make_initial_prompt (src/agents/impl_generator.py:65-75)
ImplInitialPrompt(python_interface, test) ==
    << Lit("Generate an implementation of the following python interface:\n\n"),
       Fenced(python_interface, "python"),
       Lit(NameAndInherit),
       Lit(NotAbstract),
       Lit(InterfaceExistsDoNotAdd),
       Lit("The test suite that should pass looks like this:\n\n"),
       Fenced(test, "python"),
       Lit("An example implementation might look something like this:\n\n"),
       Fenced(example_impl, "python") >>

\* ImplGenerator._make_improvement_prompt
\* (src/agents/impl_generator.py:105-118)
ImplImprovementPrompt(python_interface, test, prior_attempts) ==
    << Lit("You were previously asked to generate an implementation of the following python interface:\n\n"),
       Fenced(python_interface, "python"),
       Lit("Your response was as follows:\n\n"),
       Fenced(prior_attempts[Len(prior_attempts)].code, "python"),
       Lit(NameAndInheritRecalled),
       Lit(InterfaceExistsAssume),
       Lit("The test suite that was run looks like this:\n\n"),
       Fenced(test, "python"),
       Lit("When the tests were run, the following output indicates some problems:"),
       Fenced(prior_attempts[Len(prior_attempts)].errors, ""),
       Lit("Please generate a new implementation according to the same instructions, "),
       Lit("and make sure the problems are addressed so that all tests pass.") >>

\* The sentences both test prompts start with
\* (src/agents/test_generator.py:76-82 and :107-111; backquotes written as ').
TestDirectives ==
    << Lit("Generate a test suite for the following code. "),
       Lit("The test suite should be a class that inherits from 'unittest.TestCase', "),
       Lit("and you should assume both the implementation and the interface already exists, "),
       Lit("and they are both in the same directory as the test being generated. "),
       Lit("The 'setUp' method always instantiates an implementation of the interface.\n") >>

\* TestGenerator._make_initial_prompt (src/agents/test_generator.py:75-88)
TestInitialPrompt(interface) ==
    TestDirectives \o
    << Lit("Here is an example output for a hypothetical interface called 'MyInterface':\n"),
       Fenced(example_test, "python"),
       Lit("Now generate a test suite in the same style, for testing the interface provided "),
       Lit("below. Make sure to cover edge cases, happy paths and error handling:\n\n"),
       Fenced(interface, "python") >>

\* TestGenerator._make_improvement_prompt
\* (src/agents/test_generator.py:106-119), the prompt it returns when it is
\* called with python_interface and prior_attempts.
TestImprovementPrompt(python_interface, prior_attempts) ==
    TestDirectives \o
    << Lit("Your previous attempt failed. You generated the following test: "),
       Fenced(prior_attempts[Len(prior_attempts)].code, "python"),
       Lit("And this caused the following error:\n\n"),
       Fenced(prior_attempts[Len(prior_attempts)].errors, ""),
       Lit("Please try again, trying to fix the above errors. "),
       Lit("The code that is being tested is as follows:\n\n"),
       Fenced(python_interface, "python") >>

\* An exception that leaves str_to_str before a prompt is built.
Raise(exception) == [kind |-> "raise", text |-> exception]

\* The prompt str_to_str builds for a request
\* (src/agents/impl_generator.py:131-134, src/agents/test_generator.py:125-128).
\* The implementation generator passes the arguments of
\* _make_improvement_prompt by position.  The test generator passes
\* interface_str=... by keyword to a function whose parameter is named
\* python_interface (src/agents/test_generator.py:91), so for a request
\* with prior attempts the call raises TypeError and no prompt is built.
MakePrompt(generator, request) ==
    IF generator = "impl"
    THEN IF request.prior_attempts # <<>>
         THEN ImplImprovementPrompt(request.interface_str, request.test_str,
                                    request.prior_attempts)
         ELSE ImplInitialPrompt(request.interface_str, request.test_str)
    ELSE IF request.prior_attempts # <<>>
         THEN <<Raise("TypeError")>>
         ELSE TestInitialPrompt(request.interface_str)

\* How many prior attempts a request holds at most.
MaxAttempts == 3

Codes == {"code_a", "code_b"}
Diagnostics == {"errors_a", "errors_b"}

Attempts == {GenerationAttempt(c, e) : c \in Codes, e \in Diagnostics}

Histories == UNION {[1 .. n -> Attempts] : n \in 0 .. MaxAttempts}

PromptArgs ==
    {[generator |-> "test",
      request |-> TestGenerationRequest(interface_code, h)] : h \in Histories}
    \cup
    {[generator |-> "impl",
      request |-> ImplGenerationRequest(interface_code, "test_suite", h)] :
        h \in Histories}

PromptInit ==
    /\ pc = "prompt"
    /\ MainInit
    /\ WatchIdle
    /\ arg \in PromptArgs
    /\ res = <<>>

BuildPrompt ==
    /\ pc = "prompt"
    /\ res' = MakePrompt(arg.generator, arg.request)
    /\ pc' = "prompt_done"
    /\ UNCHANGED <<test_str, impl_str, tests_pass, test_output,
                   num_test_rounds, num_impl_rounds, test_attempts,
                   impl_attempts, test_request, impl_request, test_file,
                   impl_file, report, repeats, log>>
    /\ UNCHANGED <<watch_vars, arg>>

PromptNext == BuildPrompt

PromptSpec == PromptInit /\ [][PromptNext]_vars

\* The fenced parts of a prompt and the texts they hold.
Fences(prompt) == {prompt[i] : i \in {j \in DOMAIN prompt : prompt[j].kind = "fence"}}
PromptTexts(prompt) == {part.text : part \in Fences(prompt)}

\* What a sentence tells the generator to do.
Says(sentence) ==
    CASE sentence = NameAndInherit -> {"name ends with Impl", "inherits from the interface"}
      [] sentence = NameAndInheritRecalled -> {"name ends with Impl", "inherits from the interface"}
      [] sentence = NotAbstract -> {"not an abstract class", "no @abstractmethod"}
      [] sentence = InterfaceExistsDoNotAdd -> {"interface exists", "interface not added"}
      [] sentence = InterfaceExistsAssume -> {"interface exists"}
      [] OTHER -> {}

Directives(prompt) ==
    UNION {Says(prompt[i].text) : i \in {j \in DOMAIN prompt : prompt[j].kind = "literal"}}

\* ------------------------------------------------------------------ C17
\* C17: for a request without prior attempts str_to_str of both generators
\* builds the initial prompt: the interface text stands in it between python
\* fences, every other fenced text is the test suite of the request (for the
\* implementation generator) or the built-in example, and there is no bare
\* fence, which is where a diagnostic goes.
C17_InitialPrompt ==
    (pc = "prompt_done" /\ arg.request.prior_attempts = <<>>) =>
        /\ res = IF arg.generator = "impl"
                 THEN ImplInitialPrompt(arg.request.interface_str,
                                        arg.request.test_str)
                 ELSE TestInitialPrompt(arg.request.interface_str)
        /\ Fenced(arg.request.interface_str, "python") \in Fences(res)
        /\ PromptTexts(res) \subseteq
              {arg.request.interface_str} \cup
              (IF arg.generator = "impl"
               THEN {arg.request.test_str, example_impl}
               ELSE {example_test})
        /\ \A part \in Fences(res) : part.language = "python"
        /\ PromptTexts(res) \cap (Codes \cup Diagnostics) = {}

C17_Witness ==
    /\ pc = "prompt_done"
    /\ arg.generator = "impl"
    /\ arg.request.prior_attempts = <<>>
    /\ Len(res) = 9

\* ------------------------------------------------------------------ C18
\* C18 as stated: for a request with prior attempts the prompt of both
\* generators holds the code of the last attempt between python fences and
\* its errors between bare fences, and holds no code and no errors of an
\* earlier attempt that differ from those of the last.
C18_ImprovementUsesLastAttempt ==
    (pc = "prompt_done" /\ arg.request.prior_attempts # <<>>) =>
        LET prior == arg.request.prior_attempts
            last == prior[Len(prior)]
        IN  /\ Fenced(last.code, "python") \in Fences(res)
            /\ Fenced(last.errors, "") \in Fences(res)
            /\ \A k \in 1 .. Len(prior) - 1 :
                  /\ prior[k].code # last.code =>
                        prior[k].code \notin PromptTexts(res)
                  /\ prior[k].errors # last.errors =>
                        prior[k].errors \notin PromptTexts(res)

\* ------------------------------------------------------------------ C19
\* C19: the improvement prompt of the implementation generator tells the
\* generator everything the initial prompt tells it: the class name ends
\* with "Impl", the class inherits from the interface, it is not abstract
\* and has no @abstractmethod, the interface is not added again.
C19_ImprovementKeepsDirectives ==
    (/\ pc = "prompt_done"
     /\ arg.generator = "impl"
     /\ arg.request.prior_attempts # <<>>) =>
        Directives(ImplInitialPrompt(arg.request.interface_str,
                                     arg.request.test_str))
            \subseteq Directives(res)

\* ------------------------------------- the fence helpers (utils.py) alone

\* A text is the sequence of its characters.  The backquote is written as
\* "'": a string of this language cannot hold a backquote.
Backquote == "'"

Chars == {"x", " ", "\n", "\r", Backquote}

\* The characters str.strip and str.rstrip remove, and those at which
\* str.splitlines ends a line, as far as Chars has them.
Whitespace == {" ", "\n", "\r"}
LineBreaks == {"\n", "\r"}

\* The three backquotes of a fence (src/agents/utils.py:11,30,34).
Fence == <<Backquote, Backquote, Backquote>>

\* How long a code text is at most.
MaxCodeLen == 4

CodeTexts == UNION {[1 .. n -> Chars] : n \in 0 .. MaxCodeLen}

\* Language tags: a plain one, the empty one, one followed by a blank, one
\* that begins with a blank, one with a line break inside.
Languages == {<<"x">>, <<>>, <<"x", " ">>, <<" ", "x">>, <<"x", "\n", "x">>}

\* str.splitlines: the lines of a text without their line breaks; "\r\n" is
\* one line break; a text that ends with a line break has no empty last line.
RECURSIVE SplitFrom(_, _, _)
SplitFrom(text, i, line) ==
    IF i > Len(text)
    THEN IF line = <<>> THEN <<>> ELSE <<line>>
    ELSE IF text[i] = "\r" /\ i < Len(text) /\ text[i + 1] = "\n"
         THEN <<line>> \o SplitFrom(text, i + 2, <<>>)
         ELSE IF text[i] \in LineBreaks
              THEN <<line>> \o SplitFrom(text, i + 1, <<>>)
              ELSE SplitFrom(text, i + 1, Append(line, text[i]))

splitlines(text) == SplitFrom(text, 1, <<>>)

\* str.rstrip, str.lstrip and str.strip
RECURSIVE rstrip(_)
rstrip(line) ==
    IF line # <<>> /\ line[Len(line)] \in Whitespace
    THEN rstrip(SubSeq(line, 1, Len(line) - 1))
    ELSE line

RECURSIVE lstrip(_)
lstrip(line) ==
    IF line # <<>> /\ Head(line) \in Whitespace
    THEN lstrip(Tail(line))
    ELSE line

strip(line) == lstrip(rstrip(line))

\* join with a blank between the lines instead of a line break.
RECURSIVE joinWithBlank(_)
joinWithBlank(lines) ==
    IF lines = <<>> THEN <<>>
    ELSE IF Len(lines) = 1 THEN lines[1]
    ELSE lines[1] \o <<" ">> \o joinWithBlank(Tail(lines))

\* '\n'.join(code_lines) (src/agents/utils.py:38)
RECURSIVE join(_)
join(lines) ==
    IF lines = <<>> THEN <<>>
    ELSE IF Len(lines) = 1 THEN lines[1]
    ELSE lines[1] \o <<"\n">> \o join(Tail(lines))

\* src/agents/utils.py:1-11
wrap_code_in_markdown(code, language) ==
    Fence \o language \o <<"\n">> \o code \o <<"\n">> \o Fence \o <<"\n", "\n">>

\* The loop of extract_code (src/agents/utils.py:28-36) from line i on.
RECURSIVE ExtractFrom(_, _, _, _, _)
ExtractFrom(lines, i, language, started, code_lines) ==
    IF i > Len(lines)
    THEN code_lines
    ELSE IF started
         THEN IF strip(lines[i]) = Fence
              THEN code_lines
              ELSE ExtractFrom(lines, i + 1, language, TRUE,
                               Append(code_lines, rstrip(lines[i])))
         ELSE IF strip(lines[i]) = Fence \o language
              THEN ExtractFrom(lines, i + 1, language, TRUE, code_lines)
              ELSE ExtractFrom(lines, i + 1, language, FALSE, code_lines)

\* extract_code with the capture begun before the first line.
extract_codeFromStart(content, language) ==
    join(ExtractFrom(splitlines(content), 1, language, TRUE, <<>>))

\* extract_code that goes on after the closing fence.
RECURSIVE ExtractAllBlocks(_, _, _, _, _)
ExtractAllBlocks(lines, i, language, started, code_lines) ==
    IF i > Len(lines)
    THEN code_lines
    ELSE IF started
         THEN IF strip(lines[i]) = Fence
              THEN ExtractAllBlocks(lines, i + 1, language, FALSE, code_lines)
              ELSE ExtractAllBlocks(lines, i + 1, language, TRUE,
                                    Append(code_lines, rstrip(lines[i])))
         ELSE IF strip(lines[i]) = Fence \o language
              THEN ExtractAllBlocks(lines, i + 1, language, TRUE, code_lines)
              ELSE ExtractAllBlocks(lines, i + 1, language, FALSE, code_lines)

extract_codeAllBlocks(content, language) ==
    join(ExtractAllBlocks(splitlines(content), 1, language, FALSE, <<>>))

\* extract_code that ends at the first line it captures.
extract_codeFirstLine(content, language) ==
    LET code_lines == ExtractFrom(splitlines(content), 1, language, FALSE, <<>>)
    IN  IF code_lines = <<>> THEN <<>> ELSE code_lines[1]

\* src/agents/utils.py:14-38
extract_code(content, language) ==
    join(ExtractFrom(splitlines(content), 1, language, FALSE, <<>>))

FenceInit ==
    /\ pc = "fence"
    /\ MainInit
    /\ WatchIdle
    /\ arg \in [code : CodeTexts, language : Languages]
    /\ res = <<>>

\* extract_code(wrap_code_in_markdown(code, L), L)
RoundTrip ==
    /\ pc = "fence"
    /\ res' = <<extract_code(wrap_code_in_markdown(arg.code, arg.language),
                             arg.language)>>
    /\ pc' = "fence_done"
    /\ UNCHANGED <<test_str, impl_str, tests_pass, test_output,
                   num_test_rounds, num_impl_rounds, test_attempts,
                   impl_attempts, test_request, impl_request, test_file,
                   impl_file, report, repeats, log>>
    /\ UNCHANGED <<watch_vars, arg>>

FenceNext == RoundTrip

FenceSpec == FenceInit /\ [][FenceNext]_vars

\* ------------------------------------------------------------------ C20
\* No line of the code has the closing fence as its trimmed form.
NoClosingFenceLine(code) ==
    \A k \in DOMAIN splitlines(code) : strip(splitlines(code)[k]) # Fence

\* No line of the code ends with whitespace, and "\n" is its only line break.
NoTrailingWhitespace(code) ==
    /\ \A k \in DOMAIN splitlines(code) :
          rstrip(splitlines(code)[k]) = splitlines(code)[k]
    /\ \A i \in DOMAIN code : code[i] \in LineBreaks => code[i] = "\n"

\* The language tag does not end with whitespace and has no line break:
\* the opening line is compared after line.strip(), which leaves the
\* whitespace between the fence and the tag (src/agents/utils.py:35), and
\* content.splitlines() cuts a tag with a line break in two (:29).
PlainTag(language) ==
    /\ rstrip(language) = language
    /\ \A i \in DOMAIN language : language[i] \notin LineBreaks

\* C20 as stated: extracting from the wrapped code gives the code back, for
\* every code without a line whose trimmed form is the closing fence, lines
\* with trailing whitespace and trailing blank lines included.
C20_RoundTrip ==
    (pc = "fence_done" /\ NoClosingFenceLine(arg.code)) =>
        res[1] = arg.code

\* C20, amended: extracting from the wrapped code gives the code back, for
\* every code without a line whose trimmed form is the closing fence, in
\* which no line ends with whitespace and "\n" is the only line break, and
\* for every language tag that does not end with whitespace and has no line
\* break in it (it may begin with whitespace); code that ends with blank
\* lines is included.
C20_RoundTripWithoutTrailingWhitespace ==
    (/\ pc = "fence_done"
     /\ NoClosingFenceLine(arg.code)
     /\ NoTrailingWhitespace(arg.code)
     /\ PlainTag(arg.language)) =>
        res[1] = arg.code

\* A code that ends with two blank lines, given back as it was under a
\* tag that begins with a blank.
C20_Witness ==
    /\ pc = "fence_done"
    /\ arg.code = <<"x", "\n", "\n">>
    /\ arg.language = <<" ", "x">>
    /\ PlainTag(arg.language)
    /\ NoClosingFenceLine(arg.code)
    /\ NoTrailingWhitespace(arg.code)
    /\ res[1] = arg.code

\* ------------------------------------------- extract_code on any content

\* How many lines a content has at most.
MaxLines == 4

\* The requested language tag and another one.
Tag == <<"x">>
OtherTag == <<"y">>

\* The lines a content is made of: the opening fence for the tag, bare and
\* with blanks around it, the closing fence, bare and with blanks around it,
\* a code line, a code line with a blank at both ends, the opening fence of
\* another tag.
ContentLines ==
    { Fence \o Tag,
      <<" ">> \o Fence \o Tag \o <<" ">>,
      Fence,
      <<" ">> \o Fence \o <<" ">>,
      <<"x">>,
      <<" ", "x", " ">>,
      Fence \o OtherTag }

\* A content: its lines joined with line breaks.
Contents == {join(lines) : lines \in UNION {[1 .. n -> ContentLines] : n \in 0 .. MaxLines}}

ExtractInit ==
    /\ pc = "extract"
    /\ MainInit
    /\ WatchIdle
    /\ arg \in [content : Contents, language : {Tag}]
    /\ res = <<>>

\* extract_code(content, language)
Extract ==
    /\ pc = "extract"
    /\ res' = <<extract_code(arg.content, arg.language)>>
    /\ pc' = "extract_done"
    /\ UNCHANGED <<test_str, impl_str, tests_pass, test_output,
                   num_test_rounds, num_impl_rounds, test_attempts,
                   impl_attempts, test_request, impl_request, test_file,
                   impl_file, report, repeats, log>>
    /\ UNCHANGED <<watch_vars, arg>>

ExtractNext == Extract

ExtractSpec == ExtractInit /\ [][ExtractNext]_vars

\* The lines of the content at which a capture for the language begins, and
\* those that end a capture.
OpeningLines(content, language) ==
    {k \in DOMAIN splitlines(content) :
        strip(splitlines(content)[k]) = Fence \o language}

ClosingLines(content) ==
    {k \in DOMAIN splitlines(content) : strip(splitlines(content)[k]) = Fence}

\* The lines from..to of the content as extract_code captures them: each
\* without its trailing whitespace, joined with line breaks.
Captured(content, from, to) ==
    join([k \in 1 .. (to - from + 1) |-> rstrip(splitlines(content)[from + k - 1])])

\* ------------------------------------------------------------------ C21
\* C21: when no line of the content has the opening fence for the language
\* as its trimmed form, extract_code returns the empty text; fenced blocks
\* of another tag do not count.
C21_NoOpeningFence ==
    (pc = "extract_done" /\ OpeningLines(arg.content, arg.language) = {}) =>
        res[1] = <<>>

\* A block of another tag, with a code line and its closing fence.
C21_Witness ==
    /\ pc = "extract_done"
    /\ OpeningLines(arg.content, arg.language) = {}
    /\ splitlines(arg.content) = <<Fence \o OtherTag, <<"x">>, Fence>>
    /\ res[1] = <<>>

\* ------------------------------------------------------------------ C22
\* C22: when the content has an opening fence for the language and no
\* closing fence after the first one, extract_code returns all the lines
\* after that opening fence line up to the end of the content, as it
\* captures them.
C22_NoClosingFence ==
    (/\ pc = "extract_done"
     /\ OpeningLines(arg.content, arg.language) # {}) =>
        LET first == Min(OpeningLines(arg.content, arg.language)) IN
        {k \in ClosingLines(arg.content) : k > first} = {} =>
            res[1] = Captured(arg.content, first + 1,
                              Len(splitlines(arg.content)))

\* A line before the opening fence and two lines after it, one of them an
\* opening fence again.
C22_Witness ==
    /\ pc = "extract_done"
    /\ splitlines(arg.content) =
          << <<"x">>, Fence \o Tag, <<" ", "x", " ">>, Fence \o Tag >>
    /\ res[1] = <<" ", "x", "\n">> \o Fence \o Tag

\* ------------------------------------------------------------------ C23
\* C23: when the first opening fence for the language is followed by a
\* closing fence, extract_code returns the lines between that opening fence
\* and the first closing fence after it, and nothing of what follows the
\* closing fence, a later block of the same tag included.
C23_FirstBlockOnly ==
    (/\ pc = "extract_done"
     /\ OpeningLines(arg.content, arg.language) # {}) =>
        LET first == Min(OpeningLines(arg.content, arg.language))
            closing == {k \in ClosingLines(arg.content) : k > first}
        IN  closing # {} =>
              res[1] = Captured(arg.content, first + 1, Min(closing) - 1)

\* A block of the tag and a line after its closing fence; only the line of
\* the block is returned.
C23_Witness ==
    /\ pc = "extract_done"
    /\ splitlines(arg.content) =
          << Fence \o Tag, <<"x">>, Fence, <<" ", "x", " ">> >>
    /\ res[1] = <<"x">>

\* ------------------------------------------------------------------ C24
\* C24: str_to_file writes the text str_to_str returned once and returns
\* it; at every oracle run of main the test file and the implementation
\* file hold main's test_str and impl_str, which are the texts the latest
\* generation calls returned.
C24_FilesEqualCurrentTexts ==
    /\ pc \in {"run", "impl_run"} =>
         /\ test_file = test_str
         /\ impl_file = impl_str
         /\ str_to_file(test_str) =
               [written |-> <<test_str>>, returned |-> test_str]
         /\ str_to_file(impl_str) =
               [written |-> <<impl_str>>, returned |-> impl_str]
    /\ \A i \in Indices("run") :
         /\ log[i].test = log[LastUpTo("gen_test", i)].out
         /\ log[i].impl = log[LastUpTo("gen_impl", i)].out

\* The oracle is about to run on the implementation a retry returned.
C24_Witness ==
    /\ pc = "impl_run"
    /\ impl_attempts # <<>>
    /\ test_str # NoText
    /\ impl_str \notin {NoText, impl_attempts[1].code}
    /\ test_file = test_str
    /\ impl_file = impl_str

\* ------------------------------------------- the watcher's generation loops

\* The generation calls that carry prior attempts.
Improvements(op) == {i \in Indices(op) : log[i].request.prior_attempts # <<>>}

\* The first generation calls of the implementation loops run so far, and
\* the improvement calls of the loop that ran last.
InitialImpls ==
    {i \in Indices("gen_impl") : log[i].request.prior_attempts = <<>>}
LoopImprovements ==
    LET initial == InitialImpls
    IN  {i \in Improvements("gen_impl") : \A k \in initial : k < i}

\* The loop that ran last has made at most max_attempts improvement
\* generations, and an improvement generation that follows a passing run is
\* of a later run of the loop.
LoopBounded ==
    LET passed == {i \in Indices("run") : log[i].passed}
        improvements == Improvements("gen_impl")
        initial == InitialImpls
    IN  /\ Cardinality(LoopImprovements) <= max_attempts
        /\ \A i \in passed :
              \A j \in improvements :
                 j > i => \E k \in initial : i < k /\ k < j

\* C25: a run of impl_iteration_loop makes at most max_attempts improvement
\* generations after its initial one and none after a passing run (a
\* generation that follows a passing run is of a later run of the loop), at
\* the start and after every step; when the loop reports, it reports
\* success exactly when its last run passed, and failure only after
\* max_attempts improvements.
C25_ImplLoopBounded ==
    /\ LoopBounded
    /\ [][/\ LoopBounded'
          /\ (pc = "impl_check" /\ pc' = "handled") =>
                /\ report' \in {"impl_success", "impl_giveup"}
                /\ report' = "impl_success" <=> LastRunPassed
                /\ report' = "impl_giveup" =>
                      Cardinality(LoopImprovements) = max_attempts]_vars

\* The implementation loop has given up after max_attempts improvements.
C25_Witness ==
    /\ pc = "handled"
    /\ report = "impl_giveup"
    /\ attempts_count = max_attempts
    /\ Cardinality(LoopImprovements) = max_attempts
    /\ ~LastRunPassed

\* C26 as stated: test_iteration_loop makes at most max_attempts
\* regenerations after the initial generation; every regeneration request
\* carries exactly one prior attempt, the test code generated just before
\* with the error of compiling it, so no regeneration follows a test file
\* that compiles; and when the loop is over in a handler in which no agent
\* call raised, the last test file compiles or max_attempts regenerations
\* have been made.
C26_TestLoopRegenerates ==
    /\ Cardinality(Improvements("gen_test")) <= max_attempts
    /\ \A i \in Improvements("gen_test") :
          /\ i > 1
          /\ log[i - 1].op = "gen_test"
          /\ log[i - 1].out \notin {NoText} \cup Exceptions
          /\ log[i].request.prior_attempts =
                <<GenerationAttempt(log[i - 1].out, i - 1)>>
    /\ (pc = "test_check" /\ compilation_error = NoText) =>
          ~TestLoopCond(compilation_error, attempts_count)
    /\ (/\ pc \in {"handled", "raised"}
        /\ Indices("gen_test") # {}
        /\ ~AgentRaised) =>
          \/ compilation_error = NoText
          \/ Cardinality(Improvements("gen_test")) = max_attempts
    /\ report = "test_giveup" =>
          Cardinality(Improvements("gen_test")) = max_attempts

\* C27 as stated: the handler of an event for a test file, newly created or
\* modified, that compiles has asked the user when it ends, and after Enter
\* the implementation loop has run (its first generation call is logged, or
\* it could not read its files).
C27_TestFileStartsImplLoop ==
    (/\ pc \in {"handled", "raised"}
     /\ event # NoEvent
     /\ ~event.is_directory
     /\ event.kind = "TEST"
     /\ event.compiles) =>
        /\ user_input \in Typed
        /\ user_input = "" =>
              \/ Indices("gen_impl") # {}
              \/ report = "read_error"
              \/ pc = "raised"

\* C28 as stated: the watcher serves one event of the user's editor, and the
\* files written by the loop it starts do not start another loop; unless
\* the editor has saved a file in between, the calls made are then those of
\* one loop, test generations or implementation generations, never both.
C28_WritesDoNotRetrigger ==
    edits = 0 => (Indices("gen_test") = {} \/ Indices("gen_impl") = {})

\* --------------------------------------------------------- guess_classname

\* Texts are sequences of characters, as for the fences above.
ClassKeyword == <<"c", "l", "a", "s", "s">>
Blank == <<" ">>
ABC == <<"(", "A", "B", "C", ")">>
MyClass == <<"M", "y">>
No == <<"N", "o">>
myclass == <<"m", "y">>
Pass == <<":", " ", "p", "a", "s", "s">>

ObjectBase ==
    <<"(", "o", "b", "j", "e", "c", "t", ")">>

MetaclassBase ==
    <<"(", "o", "b", "j", "e", "c", "t", ",", " ", "m", "e", "t", "a", "c",
    "l", "a", "s", "s", "=", "N", "o", ")">>

ImportLine ==
    <<"f", "r", "o", "m", " ", "a", "b", "c", " ", "i", "m", "p", "o", "r",
    "t", " ", "A", "B", "C">>

DefLine ==
    <<"d", "e", "f", " ", "m", "y", "(", ")", ":", " ", "p", "a", "s", "s">>

\* The lines the code texts are made of: class statements with the base
\* ABC, with a lowercase name, without a base list, with another base, with
\* a metaclass, with more whitespace and with the base object
\* (src/utils_test.py:6-67), a statement that names ABC twice, and lines
\* that are not class statements.
GuessLines ==
    {ClassKeyword \o Blank \o MyClass \o ABC \o Pass,
     ClassKeyword \o Blank \o No \o ABC \o Pass,
     ClassKeyword \o Blank \o myclass \o ABC \o Pass,
     ClassKeyword \o Blank \o MyClass \o Pass,
     ClassKeyword \o Blank \o MyClass \o <<"(">> \o No \o <<")">> \o Pass,
     ClassKeyword \o Blank \o MyClass \o MetaclassBase \o Pass,
     ClassKeyword \o Blank \o Blank \o Blank \o MyClass \o Blank \o Blank
        \o ABC \o Blank \o Blank \o Pass,
     ClassKeyword \o Blank \o MyClass \o Blank \o ABC \o Pass,
     ClassKeyword \o Blank \o MyClass \o ObjectBase \o Pass,
     ClassKeyword \o Blank \o MyClass \o ABC \o <<":", " ", "f">> \o ABC,
     ImportLine,
     DefLine}

\* How many lines a code text has at most.
MaxGuessLines == 2

GuessCodes ==
    {join(lines) :
        lines \in UNION {[1 .. n -> GuessLines] : n \in 0 .. MaxGuessLines}}

\* [A-Z]
UpperCase ==
    {"A", "B", "C", "D", "E", "F", "G", "H", "I", "J", "K", "L", "M", "N",
     "O", "P", "Q", "R", "S", "T", "U", "V", "W", "X", "Y", "Z"}

\* The text has the literal at position i.
StartsAt(text, i, literal) ==
    /\ i + Len(literal) - 1 <= Len(text)
    /\ SubSeq(text, i, i + Len(literal) - 1) = literal

\* src/utils.py:6-7: where the text (ABC) that ends a match of
\* '^class ([A-Z].*)\(ABC\)' may begin.  The pattern is compiled without
\* re.MULTILINE, so ^ matches at the start of the code only; the group
\* begins after 'class ' with a capital letter, and .* takes any characters
\* but a line break.
ClassFinderEnds(code) ==
    {k \in 8 .. Len(code) :
        /\ StartsAt(code, 1, ClassKeyword \o Blank)
        /\ code[7] \in UpperCase
        /\ StartsAt(code, k, ABC)
        /\ \A j \in 8 .. k - 1 : code[j] # "\n"}

\* What guess_classname gives when it raises.
ValueError == <<"ValueError">>

\* src/utils.py:19-37: .* is greedy, so the group ends at the last (ABC) of
\* the line.
guess_classname(code) ==
    IF ClassFinderEnds(code) # {}
    THEN SubSeq(code, 7,
                (CHOOSE k \in ClassFinderEnds(code) :
                    \A j \in ClassFinderEnds(code) : j <= k) - 1)
    ELSE ValueError

GuessInit ==
    /\ pc = "guess"
    /\ MainInit
    /\ WatchIdle
    /\ arg \in [code : GuessCodes]
    /\ res = <<>>

\* guess_classname(code)
Guess ==
    /\ pc = "guess"
    /\ res' = <<guess_classname(arg.code)>>
    /\ pc' = "guess_done"
    /\ UNCHANGED <<test_str, impl_str, tests_pass, test_output,
                   num_test_rounds, num_impl_rounds, test_attempts,
                   impl_attempts, test_request, impl_request, test_file,
                   impl_file, report, repeats, log>>
    /\ UNCHANGED <<watch_vars, arg>>

GuessNext == Guess

GuessSpec == GuessInit /\ [][GuessNext]_vars

\* A class name: a text without blanks and punctuation.
IsName(text) ==
    /\ text # <<>>
    /\ \A i \in DOMAIN text : text[i] \notin {" ", "(", ")", ":", ",", "="}

\* Where the base list of a line written as class Name(ABC), with a
\* capitalised name, begins.
DeclaredEnds(line) ==
    {k \in 8 .. Len(line) :
        /\ StartsAt(line, 1, ClassKeyword \o Blank)
        /\ line[7] \in UpperCase
        /\ IsName(SubSeq(line, 7, k - 1))
        /\ StartsAt(line, k, ABC)}

\* The name of the first class that the lines declare in that form.
RECURSIVE FirstDeclared(_)
FirstDeclared(lines) ==
    IF lines = <<>> THEN ValueError
    ELSE IF DeclaredEnds(lines[1]) # {}
         THEN SubSeq(lines[1], 7, (CHOOSE k \in DeclaredEnds(lines[1]) : TRUE) - 1)
         ELSE FirstDeclared(Tail(lines))

\* C29 as stated: guess_classname returns the name of the first class of the
\* code declared as class Name(ABC) with a capitalised name, and raises
\* ValueError when the code has no such declaration (no class statement, a
\* lowercase name, no base list, another base, a metaclass).
C29_FirstAbcClass ==
    pc = "guess_done" => res = <<FirstDeclared(splitlines(arg.code))>>

\* C30 as stated: guess_classname returns the bare class name for a class
\* statement with extra whitespace between class, the name and the base
\* list, and for a class whose only base is object.
C30_WhitespaceAndObject ==
    (/\ pc = "guess_done"
     /\ arg.code \in
           {ClassKeyword \o Blank \o Blank \o Blank \o MyClass \o Blank
               \o Blank \o ABC \o Blank \o Blank \o Pass,
            ClassKeyword \o Blank \o MyClass \o ObjectBase \o Pass}) =>
        res = <<MyClass>>

\* ---------------------------------------------------------- camel_to_snake

\* The letters in the order of the alphabet, for str.lower.
UpperLetters ==
    <<"A", "B", "C", "D", "E", "F", "G", "H", "I", "J", "K", "L", "M", "N",
      "O", "P", "Q", "R", "S", "T", "U", "V", "W", "X", "Y", "Z">>

LowerLetters ==
    <<"a", "b", "c", "d", "e", "f", "g", "h", "i", "j", "k", "l", "m", "n",
      "o", "p", "q", "r", "s", "t", "u", "v", "w", "x", "y", "z">>

\* [a-z]
LowerCase == {LowerLetters[i] : i \in DOMAIN LowerLetters}

Digits == {"0", "1", "2", "3", "4", "5", "6", "7", "8", "9"}

\* str.lower
lower(text) ==
    [i \in DOMAIN text |->
        IF text[i] \in UpperCase
        THEN LowerLetters[CHOOSE k \in DOMAIN UpperLetters :
                             UpperLetters[k] = text[i]]
        ELSE text[i]]

\* The characters of the names, and how long a name is at most.
NameChars == {"a", "A", "1"}

MaxNameLen == 5

Names == UNION {[1 .. n -> NameChars] : n \in 0 .. MaxNameLen}

\* src/utils.py:11-15: the three alternatives of _SNAKE_CASE_PATTERN at the
\* position between character p and character p + 1 of the text.
LowerThenUpper(text, p) ==
    /\ p >= 1 /\ p + 1 <= Len(text)
    /\ text[p] \in LowerCase
    /\ text[p + 1] \in UpperCase

UpperThenCapitalised(text, p) ==
    /\ p >= 1 /\ p + 2 <= Len(text)
    /\ text[p] \in UpperCase
    /\ text[p + 1] \in UpperCase
    /\ text[p + 2] \in LowerCase

LowerThenInitialism(text, p) ==
    /\ p >= 1 /\ p + 2 <= Len(text)
    /\ text[p] \in LowerCase
    /\ text[p + 1] \in UpperCase
    /\ text[p + 2] \in UpperCase

\* A pattern without the alternative for initialisms.
SnakeCasePatternCamelOnly(text, p) == LowerThenUpper(text, p)

SnakeCasePattern(text, p) ==
    \/ LowerThenUpper(text, p)
    \/ UpperThenCapitalised(text, p)
    \/ LowerThenInitialism(text, p)

\* src/utils.py:50: _SNAKE_CASE_PATTERN.sub('_', text): every match is
\* empty, so the text is kept and an underscore is put at every position
\* at which the pattern matches.
RECURSIVE SubFrom(_, _)
SubFrom(text, p) ==
    (IF SnakeCasePattern(text, p) THEN <<"_">> ELSE <<>>)
    \o (IF p < Len(text)
        THEN <<text[p + 1]>> \o SubFrom(text, p + 1)
        ELSE <<>>)

\* src/utils.py:40-50
camel_to_snake(text) == lower(SubFrom(text, 0))

SnakeInit ==
    /\ pc = "snake"
    /\ MainInit
    /\ WatchIdle
    /\ arg \in [text : Names]
    /\ res = <<>>

\* camel_to_snake(text)
Snake ==
    /\ pc = "snake"
    /\ res' = <<camel_to_snake(arg.text)>>
    /\ pc' = "snake_done"
    /\ UNCHANGED <<test_str, impl_str, tests_pass, test_output,
                   num_test_rounds, num_impl_rounds, test_attempts,
                   impl_attempts, test_request, impl_request, test_file,
                   impl_file, report, repeats, log>>
    /\ UNCHANGED <<watch_vars, arg>>

SnakeNext == Snake

SnakeSpec == SnakeInit /\ [][SnakeNext]_vars

\* The positions of a name after which a capitalised word or an acronym
\* begins: a lowercase letter before an uppercase one, and the last letter
\* of an acronym before a capitalised word.
WordBoundaries(text) ==
    {p \in 1 .. Len(text) - 1 :
        \/ text[p] \in LowerCase /\ text[p + 1] \in UpperCase
        \/ /\ p + 2 <= Len(text)
           /\ text[p] \in UpperCase
           /\ text[p + 1] \in UpperCase
           /\ text[p + 2] \in LowerCase}

\* The positions after which an uppercase letter follows a digit.
DigitBoundaries(text) ==
    {p \in 1 .. Len(text) - 1 :
        text[p] \in Digits /\ text[p + 1] \in UpperCase}

\* The text without its underscores.
RECURSIVE WithoutUnderscores(_)
WithoutUnderscores(text) ==
    IF text = <<>> THEN <<>>
    ELSE (IF Head(text) = "_" THEN <<>> ELSE <<Head(text)>>)
         \o WithoutUnderscores(Tail(text))

\* Where the result has the underscore of the boundary p, when it has one
\* underscore for each boundary of the set.
UnderscoreOf(boundaries, p) ==
    p + Cardinality({q \in boundaries : q <= p})

\* C31: camel_to_snake gives the lower-cased text with exactly one
\* underscore at each boundary from a lowercase to an uppercase letter and
\* between an acronym and a capitalised word after it, and no other
\* underscore; an empty, all-lowercase or all-uppercase text is only
\* lower-cased.
C31_UnderscoreAtWordBoundaries ==
    pc = "snake_done" =>
        LET text == arg.text
            out == res[1]
            boundaries == WordBoundaries(text)
        IN  /\ WithoutUnderscores(out) = lower(text)
            /\ Len(out) = Len(text) + Cardinality(boundaries)
            /\ \A p \in boundaries : out[UnderscoreOf(boundaries, p)] = "_"
            /\ (\A i \in DOMAIN text : text[i] \in LowerCase) => out = text
            /\ (\A i \in DOMAIN text : text[i] \in UpperCase) =>
                  out = lower(text)

\* An acronym before a capitalised word and a lowercase letter before an
\* uppercase one: AAaA gives a_aa_a.
C31_Witness ==
    /\ pc = "snake_done"
    /\ arg.text = <<"A", "A", "a", "A">>
    /\ res[1] = <<"a", "_", "a", "a", "_", "a">>

\* C32 as stated: camel_to_snake puts an underscore between a digit and an
\* uppercase letter after it, and none before a digit.
C32_UnderscoreAfterDigit ==
    pc = "snake_done" =>
        LET text == arg.text
            out == res[1]
            boundaries == WordBoundaries(text) \cup DigitBoundaries(text)
        IN  /\ \A p \in DigitBoundaries(text) :
                  /\ UnderscoreOf(boundaries, p) <= Len(out)
                  /\ out[UnderscoreOf(boundaries, p)] = "_"
            /\ \A i \in 1 .. Len(out) - 1 :
                  out[i] = "_" => out[i + 1] \notin Digits

\* ------------------------------------------------------------------ C33
\* C33 as stated: a session that reports success has made its passing run
\* on a generated test suite that is not empty.
C33_SuccessNeedsTests ==
    report = "success" =>
        log[LastUpTo("run", Len(log))].test # NoText

\* ------------------------------------------------------------------ C34
\* C34: the test_str of every implementation request is the text the most
\* recent test generation call before it returned.  (A session has one test
\* suite: the regeneration that would give the second raises, C3.)
C34_RequestsUseCurrentSuite ==
    \A i \in Indices("gen_impl") :
        /\ LastUpTo("gen_test", i) > 0
        /\ log[i].request.test_str = log[LastUpTo("gen_test", i)].out

\* The last retry of the round is requested with the suite generated first.
C34_Witness ==
    \E i \in ImplRetries :
        /\ Len(log[i].request.prior_attempts) = max_impl_rounds
        /\ log[i].request.test_str = log[1].out
        /\ log[1].out # NoText

\* ------------------------------------------------------------------ C35
\* C35 as stated: a session in which no agent call raised and whose last
\* oracle run failed is over only after max_test_rounds regenerations, with
\* the report of giving up; and once max_test_rounds regenerations have been
\* made, no implementation is generated after the last of them and the
\* suite it returned is run once, against the implementation generated last.
C35_NoRetryAfterLastRegeneration ==
    /\ (/\ pc \in Terminal
        /\ Indices("run") # {}
        /\ ~LastRunPassed
        /\ ~AgentRaised) =>
          /\ Cardinality(TestRegens) = max_test_rounds
          /\ report = "giveup"
    /\ Cardinality(TestRegens) = max_test_rounds =>
        LET last == CHOOSE k \in TestRegens : \A j \in TestRegens : j <= k
            runs == {i \in Indices("run") : i > last}
        IN  /\ \A i \in Indices("gen_impl") : i < last
            /\ Cardinality(runs) <= 1
            /\ \A i \in runs :
                  /\ log[i].test = log[last].out
                  /\ log[i].impl = log[LastUpTo("gen_impl", last)].out
            /\ pc \in {"outer", "report", "done"} => Cardinality(runs) = 1

\* ------------------------------------------------------------------ C38
\* C38: num_impl_rounds stays within 0 .. max_impl_rounds and
\* num_test_rounds within 0 .. max_test_rounds, and an implementation retry
\* is made only while both are greater than zero.
C38_BudgetsInRange ==
    /\ num_impl_rounds \in 0 .. max_impl_rounds
    /\ num_test_rounds \in 0 .. max_test_rounds
    /\ (pc = "impl_run" \/ (pc = "raised" /\ IsImplRetry(Last(log)))) =>
          num_impl_rounds > 0 /\ num_test_rounds > 0

\* A retry made with the last implementation round.
C38_Witness ==
    /\ pc = "impl_run"
    /\ num_impl_rounds = 1
    /\ num_test_rounds = max_test_rounds

\* ------------------------------------------------------------------ C37
\* C37 as stated: when run_tests returns passed = false, the diagnostic it
\* returns is not the empty text: the lines joined for it are at least one,
\* and they are what is returned.
C37_FailureHasDiagnostic ==
    (pc = "oracle_done" /\ ~res[1]) =>
        LET lines == OutputLines(TestResult(arg.outcomes)) IN
        /\ lines # <<>>
        /\ res[2] = lines

\* ------------------------------------------------------------------ C36
\* C36 as stated: while the interface file of the event does not compile,
\* the watcher makes no implementation generation call.
C36_ImplLoopNeedsInterface ==
    (event # NoEvent /\ ~event.iface_compiles) => Indices("gen_impl") = {}

\* ------------------------------------------------------------------ C39
\* C39: a handler called for an event of an implementation file returns
\* without a prompt, a generation call, an oracle run or a report, and
\* leaves the texts, the files and the counters as they are.
C39_ImplEventsDoNothing ==
    [][(/\ pc \in {"watch", "handled"}
        /\ event' # event
        /\ event'.kind = "IMPL") =>
           /\ pc' = "handled"
           /\ UNCHANGED <<user_input, log, report, attempts_count,
                          compilation_error>>
           /\ UNCHANGED <<test_str, impl_str, tests_pass, test_output,
                          test_attempts, impl_attempts, test_request,
                          impl_request, test_file, impl_file>>]_vars

\* on_modified has returned for the event of an implementation file that
\* compiles; the user was not asked and no call was made.
C39_Witness ==
    /\ pc = "handled"
    /\ event # NoEvent
    /\ event.type = "modified"
    /\ event.kind = "IMPL"
    /\ ~event.is_directory
    /\ event.compiles
    /\ user_input = NotAsked
    /\ log = <<>>
    /\ report = "none"

\* ------------------------------------------- the MCP tools (mcp/server.py)

\* os.getcwd(): the root directory of the server.
base_path == <<"/", "a">>

\* The file system: its directories and its files, by their normal paths.
\* /a2 and /aa lie beside the root directory /a.
Directories ==
    {<<"/">>, <<"/", "a">>, <<"/", "a", "/", "2">>, <<"/", "a", "2">>}

Files ==
    {<<"/", "a", "/", "a">>, <<"/", "a", "a">>,
     <<"/", "a", "2", "/", "a">>}

\* The characters of a requested path, and how long it is at most.
PathChars == {"/", ".", "a", "2"}

MaxPathLen == 5

Paths == UNION {[1 .. n -> PathChars] : n \in 0 .. MaxPathLen}

\* str.split('/')
RECURSIVE SplitPath(_, _)
SplitPath(path, comp) ==
    IF path = <<>> THEN <<comp>>
    ELSE IF Head(path) = "/"
         THEN <<comp>> \o SplitPath(Tail(path), <<>>)
         ELSE SplitPath(Tail(path), Append(comp, Head(path)))

\* '/'.join(comps)
RECURSIVE JoinPath(_)
JoinPath(comps) ==
    IF comps = <<>> THEN <<>>
    ELSE IF Len(comps) = 1 THEN comps[1]
    ELSE comps[1] \o <<"/">> \o JoinPath(Tail(comps))

\* str.startswith
startswith(text, prefix) ==
    Len(prefix) <= Len(text) /\ SubSeq(text, 1, Len(prefix)) = prefix

\* os.path.join(a, p) for a directory a that does not end with a slash.
path_join(a, p) ==
    IF startswith(p, <<"/">>) THEN p
    ELSE a \o <<"/">> \o p

\* posixpath.normpath: the loop over the components.
RECURSIVE NormComps(_, _, _)
NormComps(comps, initial_slashes, new_comps) ==
    IF comps = <<>> THEN new_comps
    ELSE LET comp == Head(comps) IN
         IF comp \in {<<>>, <<".">>}
         THEN NormComps(Tail(comps), initial_slashes, new_comps)
         ELSE IF \/ comp # <<".", ".">>
                 \/ (initial_slashes = 0 /\ new_comps = <<>>)
                 \/ (new_comps # <<>> /\ Last(new_comps) = <<".", ".">>)
              THEN NormComps(Tail(comps), initial_slashes,
                             Append(new_comps, comp))
              ELSE IF new_comps # <<>>
                   THEN NormComps(Tail(comps), initial_slashes,
                                  SubSeq(new_comps, 1, Len(new_comps) - 1))
                   ELSE NormComps(Tail(comps), initial_slashes, new_comps)

\* posixpath.normpath: two slashes at the start are kept, three or more
\* become one.
normpath(path) ==
    IF path = <<>> THEN <<".">>
    ELSE LET initial_slashes ==
               IF ~startswith(path, <<"/">>) THEN 0
               ELSE IF startswith(path, <<"/", "/">>)
                       /\ ~startswith(path, <<"/", "/", "/">>)
                    THEN 2 ELSE 1
             normal ==
               [k \in 1 .. initial_slashes |-> "/"]
               \o JoinPath(NormComps(SplitPath(path, <<>>),
                                     initial_slashes, <<>>))
         IN  IF normal = <<>> THEN <<".">> ELSE normal

\* src/mcp/server.py:39-40, 65-66: os.path.abspath of a path that
\* os.path.join has made absolute.
full_path(path) == normpath(path_join(base_path, path))

\* The file or directory the kernel finds for a normal path: slashes at
\* its start count as one.
Resolved(full) ==
    <<"/">> \o JoinPath(NormComps(SplitPath(full, <<>>), 1, <<>>))

\* os.listdir: the names in a directory.
listdir(dir) ==
    {name \in Paths :
        /\ name \notin {<<>>, <<".">>, <<".", ".">>}
        /\ \A i \in DOMAIN name : name[i] # "/"
        /\ Resolved(dir \o <<"/">> \o name) \in Directories \cup Files}

\* A check of the path that compares whole components: the full path is
\* the root directory or lies below it.
InsideRoot(full, root) ==
    full = root \/ startswith(full, root \o <<"/">>)

\* src/mcp/server.py:43, 69: the check made before the path is used.
PathAllowed(full, root) == startswith(full, root)

\* src/mcp/server.py:34-58
list_files(directory_path) ==
    LET full == full_path(directory_path) IN
    IF ~PathAllowed(full, base_path)
    THEN [error |-> "Error: Invalid path."]
    ELSE IF Resolved(full) \notin Directories \cup Files
         THEN [error |-> "Error: Path does not exist."]
         ELSE IF Resolved(full) \notin Directories
              THEN [error |-> "Error: Path is not a directory."]
              ELSE [listing |-> listdir(Resolved(full))]

\* src/mcp/server.py:60-86; the content of a file is named by its path.
read_file_content(file_path) ==
    LET full == full_path(file_path) IN
    IF ~PathAllowed(full, base_path)
    THEN [error |-> "Error: Invalid file path."]
    ELSE IF Resolved(full) \notin Directories \cup Files
         THEN [error |-> "Error: File not found."]
         ELSE IF Resolved(full) \notin Files
              THEN [error |-> "Error: Path is a directory, not a file."]
              ELSE [content |-> Resolved(full)]

McpInit ==
    /\ pc = "mcp"
    /\ MainInit
    /\ WatchIdle
    /\ arg \in [tool : {"list_files", "read_file_content"}, path : Paths]
    /\ res = <<>>

\* One call of a tool.
CallTool ==
    /\ pc = "mcp"
    /\ res' = IF arg.tool = "list_files"
              THEN <<list_files(arg.path)>>
              ELSE <<read_file_content(arg.path)>>
    /\ pc' = "mcp_done"
    /\ UNCHANGED <<test_str, impl_str, tests_pass, test_output,
                   num_test_rounds, num_impl_rounds, test_attempts,
                   impl_attempts, test_request, impl_request, test_file,
                   impl_file, report, repeats, log>>
    /\ UNCHANGED <<watch_vars, arg>>

McpNext == CallTool

McpSpec == McpInit /\ [][McpNext]_vars

\* ------------------------------------------------------------------ C40
\* C40 as stated: a call of list_files or read_file_content with a path
\* that resolves outside the root directory returns the invalid-path error
\* of the tool, so nothing outside the root is listed or read.
C40_ConfinedToRoot ==
    (/\ pc = "mcp_done"
     /\ ~InsideRoot(Resolved(full_path(arg.path)), base_path)) =>
        res[1] = IF arg.tool = "list_files"
                 THEN [error |-> "Error: Invalid path."]
                 ELSE [error |-> "Error: Invalid file path."]

====
